---------------------------- MODULE Spec2Model ----------------------------
(***************************************************************************)
(* Model of the NitradoAPIConverter class (converter.js): the conversion   *)
(* of apiDoc endpoint records into an OpenAPI document, the synthesis of   *)
(* operation identifiers and the ledger of identifiers already issued,     *)
(* and of the two scripts that drive a converter: run() of converter.js    *)
(* and convert-openapi.js, with the dry-run setting of config.js.          *)
(*                                                                         *)
(* JavaScript strings are modelled as sequences of one-character strings,  *)
(* so that the regular-expression replacements, splits and concatenations  *)
(* of the source are computed character by character.                      *)
(***************************************************************************)
EXTENDS Naturals, Sequences, FiniteSets, TLC

VARIABLES apiData, usedOperationIds, lastCall, pc, calls, config

vars == <<apiData, usedOperationIds, lastCall, pc, calls, config>>

\* The state of the script that drives a converter: the position of its run,
\* the calls made so far to axios, fs and process, and the configuration
scriptVars == <<pc, calls, config>>

(***************************************************************************)
(* Characters and the character classes of the regular expressions.        *)
(***************************************************************************)
LowerCaseLetters ==
  <<"a","b","c","d","e","f","g","h","i","j","k","l","m","n","o","p","q","r","s","t","u","v","w","x","y","z">>

UpperCaseLetters ==
  <<"A","B","C","D","E","F","G","H","I","J","K","L","M","N","O","P","Q","R","S","T","U","V","W","X","Y","Z">>

DecimalDigits ==
  <<"0","1","2","3","4","5","6","7","8","9">>

Range(s) == {s[i] : i \in DOMAIN s}

LowerCaseSet == Range(LowerCaseLetters)

UpperCaseSet == Range(UpperCaseLetters)

DigitSet == Range(DecimalDigits)

\* [a-z]
IsLower(c) == c \in LowerCaseSet

\* [A-Z]
IsUpper(c) == c \in UpperCaseSet

\* [a-zA-Z0-9]
IsAlnum(c) == c \in LowerCaseSet \/ c \in UpperCaseSet \/ c \in DigitSet

\* \w
IsWordChar(c) == IsAlnum(c) \/ c = "_"

\* \s, as far as the inputs of the model use it
IsSpace(c) == c \in {" ", "\t", "\n"}

UpperOf == [c \in LowerCaseSet |-> UpperCaseLetters[CHOOSE i \in 1..26 : LowerCaseLetters[i] = c]]

LowerOf == [c \in UpperCaseSet |-> LowerCaseLetters[CHOOSE i \in 1..26 : UpperCaseLetters[i] = c]]

\* String.prototype.toUpperCase on one character
CharToUpper(c) == IF IsLower(c) THEN UpperOf[c] ELSE c

\* String.prototype.toLowerCase on one character
CharToLower(c) == IF IsUpper(c) THEN LowerOf[c] ELSE c

toLowerCase(s) == [i \in 1..Len(s) |-> CharToLower(s[i])]

\* String.prototype.includes
includes(s, sub) ==
  \E i \in 0..(Len(s) - Len(sub)) : SubSeq(s, i + 1, i + Len(sub)) = sub

\* String.prototype.trim
RECURSIVE trimStart(_)
trimStart(s) ==
  IF s # <<>> /\ IsSpace(s[1]) THEN trimStart(Tail(s)) ELSE s

RECURSIVE trimEnd(_)
trimEnd(s) ==
  IF s # <<>> /\ IsSpace(s[Len(s)]) THEN trimEnd(SubSeq(s, 1, Len(s) - 1)) ELSE s

trim(s) == trimEnd(trimStart(s))

\* Array.prototype.join('')
RECURSIVE join(_)
join(parts) ==
  IF parts = <<>> THEN <<>> ELSE Head(parts) \o join(Tail(parts))

\* String.prototype.split('/'): the pieces between the separators, empty ones kept
RECURSIVE splitOn(_, _, _)
splitOn(s, sep, piece) ==
  IF s = <<>> THEN <<piece>>
  ELSE IF s[1] = sep THEN <<piece>> \o splitOn(Tail(s), sep, <<>>)
  ELSE splitOn(Tail(s), sep, Append(piece, s[1]))

\* `${counter}`: the decimal digits of a natural number
RECURSIVE numberToString(_)
numberToString(n) ==
  IF n < 10 THEN <<DecimalDigits[n + 1]>>
  ELSE numberToString(n \div 10) \o <<DecimalDigits[(n % 10) + 1]>>

\* The value of a property that a record does not have (or holds null)
undefined == <<"undefined">>

\* JavaScript truthiness of an optional string: neither missing nor ''
truthy(v) == v # undefined /\ v # <<>>

(***************************************************************************)
(* Operation identifier synthesis.                                         *)
(***************************************************************************)

\* str.replace(/_([a-z])/g, (match, letter) => letter.toUpperCase())
RECURSIVE replaceSnake(_)
replaceSnake(s) ==
  IF s = <<>> THEN <<>>
  ELSE IF Len(s) >= 2 /\ s[1] = "_" /\ IsLower(s[2])
    THEN <<CharToUpper(s[2])>> \o replaceSnake(SubSeq(s, 3, Len(s)))
  ELSE <<s[1]>> \o replaceSnake(Tail(s))

\* str.replace(/^[a-z]/, letter => letter.toUpperCase())
capitalizeFirst(str) ==
  IF str # <<>> /\ IsLower(str[1]) THEN <<CharToUpper(str[1])>> \o Tail(str) ELSE str

\* convertParamToPascalCase with the underscore replacement left out
convertParamToPascalCaseFirstLetterOnly(param) ==
  IF param # <<>> /\ IsLower(param[1])
    THEN <<CharToUpper(param[1])>> \o Tail(param)
    ELSE param

convertParamToPascalCase(param) ==
  LET camel == replaceSnake(param)
  IN  IF camel # <<>> /\ IsLower(camel[1])
        THEN <<CharToUpper(camel[1])>> \o Tail(camel)
        ELSE camel

convertToPascalCase(str) ==
  LET camel == replaceSnake(str)
  IN  IF camel # <<>> /\ IsLower(camel[1])
        THEN <<CharToUpper(camel[1])>> \o Tail(camel)
        ELSE camel

\* url.replace(/^\//, '').split('/').filter(part => part)
extractPathParts(url) ==
  LET stripped == IF url # <<>> /\ url[1] = "/" THEN Tail(url) ELSE url
  IN  SelectSeq(splitOn(stripped, "/", <<>>), LAMBDA part : part # <<>>)

processPathParts(pathParts) ==
  [k \in 1..Len(pathParts) |->
     IF pathParts[k][1] = ":"
       THEN convertParamToPascalCase(Tail(pathParts[k]))
       ELSE convertToPascalCase(pathParts[k])]

generatePathId(url) == join(processPathParts(extractPathParts(url)))

genericNames ==
  << <<"D","e","t","a","i","l","s">>,
     <<"L","i","s","t">>,
     <<"C","r","e","a","t","e">>,
     <<"U","p","d","a","t","e">>,
     <<"D","e","l","e","t","e">>,
     <<"G","e","t">>,
     <<"P","o","s","t">>,
     <<"P","u","t">>,
     <<"P","a","t","c","h">>,
     <<"R","e","s","t","a","r","t">>,
     <<"S","t","o","p">>,
     <<"S","t","a","r","t">>,
     <<"I","n","f","o">>,
     <<"S","t","a","t","u","s">>,
     <<"C","h","e","c","k">>,
     <<"A","d","d">>,
     <<"R","e","m","o","v","e">>,
     <<"S","e","t">>,
     <<"G","e","n","e","r","a","t","e">>,
     <<"E","n","a","b","l","e">>,
     <<"D","i","s","a","b","l","e">>,
     <<"S","e","n","d">>,
     <<"R","e","c","e","i","v","e">>,
     <<"U","p","l","o","a","d">>,
     <<"D","o","w","n","l","o","a","d">> >>

\* isGenericOperationName without the test of the length
isGenericOperationNameVocabularyOnly(name) ==
  \E g \in DOMAIN genericNames :
    includes(toLowerCase(name), toLowerCase(genericNames[g]))

isGenericOperationName(name) ==
  LET lowered == toLowerCase(name)
  IN  \/ \E g \in DOMAIN genericNames : includes(lowered, toLowerCase(genericNames[g]))
      \/ Len(name) < 4

\* 'Default', the tag of a record without a group
DefaultGroup == <<"D","e","f","a","u","l","t">>

\* getGroupPrefix that PascalCases the group as processPathParts does a literal
getGroupPrefixPascalCased(endpoint) ==
  IF truthy(endpoint.group) /\ endpoint.group # DefaultGroup
    THEN convertToPascalCase(endpoint.group)
    ELSE <<>>

getGroupPrefix(endpoint) ==
  IF truthy(endpoint.group) /\ endpoint.group # DefaultGroup
    THEN SelectSeq(endpoint.group, IsAlnum)
    ELSE <<>>

generateContextualOperationId(endpoint, cleanName, url) ==
  capitalizeFirst(getGroupPrefix(endpoint) \o generatePathId(url) \o cleanName)

\* addPathContextIfNeeded with urlDepth >= 2 for urlDepth > 2
addPathContextIfNeededFromDepthTwo(cleanName, url) ==
  LET pathParts == extractPathParts(url)
      processedParts == processPathParts(pathParts)
      n == Len(processedParts)
  IN  IF Len(pathParts) >= 2
        THEN capitalizeFirst(join(SubSeq(processedParts, n - 1, n)) \o cleanName)
        ELSE cleanName

addPathContextIfNeeded(cleanName, url) ==
  LET pathParts == extractPathParts(url)
      processedParts == processPathParts(pathParts)
      n == Len(processedParts)
  IN  IF Len(pathParts) > 2
        THEN capitalizeFirst(join(SubSeq(processedParts, n - 1, n)) \o cleanName)
        ELSE cleanName

generateOperationIdFromName(endpoint, method, url) ==
  LET cleanName == SelectSeq(endpoint.name, IsAlnum)
  IN  IF isGenericOperationName(cleanName)
        THEN generateContextualOperationId(endpoint, cleanName, url)
        ELSE addPathContextIfNeeded(cleanName, url)

generateOperationIdFromPath(method, url) ==
  capitalizeFirst(method) \o join(processPathParts(extractPathParts(url)))

GetMethod == <<"g","e","t">>

generateOperationId(endpoint) ==
  LET method == toLowerCase(IF truthy(endpoint.type) THEN endpoint.type ELSE GetMethod)
      url == IF truthy(endpoint.url) THEN endpoint.url ELSE <<>>
  IN  IF endpoint.name # undefined /\ trim(endpoint.name) # <<>>
        THEN generateOperationIdFromName(endpoint, method, url)
        ELSE generateOperationIdFromPath(method, url)

(***************************************************************************)
(* The ledger of operation identifiers.                                    *)
(***************************************************************************)

\* probeSuffix without the loop: the first suffix is taken unprobed
probeSuffixOnce(used, baseId, counter) == baseId \o numberToString(counter)

\* The while loop of ensureUniqueOperationId: the first `${baseId}${counter}`,
\* counting up from counter, that the ledger does not hold
RECURSIVE probeSuffix(_, _, _)
probeSuffix(used, baseId, counter) ==
  IF (baseId \o numberToString(counter)) \in used
    THEN probeSuffix(used, baseId, counter + 1)
    ELSE baseId \o numberToString(counter)

\* ensureUniqueOperationId without the suffix: a taken identifier is issued again
ensureUniqueOperationIdNoSuffix(used, baseId) ==
  [id |-> baseId, used |-> used \cup {baseId}]

\* ensureUniqueOperationId that does not register the suffixed identifier
ensureUniqueOperationIdUnregistered(used, baseId) ==
  IF baseId \notin used
    THEN [id |-> baseId, used |-> used \cup {baseId}]
    ELSE [id |-> probeSuffix(used, baseId, 2), used |-> used]

\* The identifier ensureUniqueOperationId returns and the ledger it leaves
ensureUniqueOperationId(used, baseId) ==
  IF baseId \notin used
    THEN [id |-> baseId, used |-> used \cup {baseId}]
    ELSE LET uniqueId == probeSuffix(used, baseId, 2)
         IN  [id |-> uniqueId, used |-> used \cup {uniqueId}]

(***************************************************************************)
(* Conversion of the endpoint records into the OpenAPI document.           *)
(***************************************************************************)

\* The labels under which the `fields` object of a field group lists its fields
Labels ==
  {"Parameter", "Query", "Body", "Request", "Header",
   "Success 200", "Success", "Error 4xx", "Error"}

\* The value under a label: "array" for a list of fields, "undefined" for a
\* missing label or null, "string" for a non-empty string and "object" for {}
\* (both truthy, neither a list)
LabelValue(kind, items) == [kind |-> kind, items |-> items]

MissingLabel == LabelValue("undefined", <<>>)

\* One field of a list: { field, type, optional, description }; a missing
\* `optional` is falsy like false
Field(field, type, optional) ==
  [field |-> field, type |-> type, optional |-> optional, description |-> undefined]

\* A `fields` object holding at most two labels
FieldsObject(label1, value1, label2, value2) ==
  [kind |-> "object",
   labels |-> [l \in Labels |-> IF l = label1 THEN value1
                                ELSE IF l = label2 THEN value2
                                ELSE MissingLabel]]

NoFields == [kind |-> "undefined", labels |-> [l \in Labels |-> MissingLabel]]

\* endpoint.parameter, endpoint.header, endpoint.success, endpoint.error:
\* missing, or an object whose `fields` may be missing
FieldGroup(fields) == [kind |-> "object", fields |-> fields]

NoGroup == [kind |-> "undefined", fields |-> NoFields]

\* endpoint.deprecated: missing, or an object with an optional content
NotDeprecated == [present |-> FALSE, content |-> undefined]

\* An endpoint record of api_data.js; a missing property holds undefined
Endpoint(name, url, type, group) ==
  [name |-> name, url |-> url, type |-> type, group |-> group,
   title |-> undefined, description |-> undefined, deprecated |-> NotDeprecated,
   public |-> FALSE,
   parameter |-> NoGroup, header |-> NoGroup, success |-> NoGroup, error |-> NoGroup]

\* this.apiData: null after construction, else the parsed payload, whose
\* `api` property is missing, an array of endpoint records, or some other
\* (truthy) JSON value
NullData == [isNull |-> TRUE, api |-> [kind |-> "undefined", items |-> <<>>]]

ApiDocument(kind, items) == [isNull |-> FALSE, api |-> [kind |-> kind, items |-> items]]

defaultConfig ==
  [apiTitle |-> "Nitrado API",
   apiDescription |-> "Official Nitrado API for managing game servers, domains, and other services",
   apiVersion |-> "1.0.0",
   serverUrl |-> "https://api.nitrado.net",
   contactName |-> "Nitrado Support",
   contactUrl |-> "https://nitrado.net/support",
   licenseUrl |-> "https://nitrado.net/terms"]

\* The document before the first endpoint. pathKeys is Object.keys(paths): the
\* keys of paths in the order in which they were created (no path is an array
\* index: a URL begins with '/')
createBaseOpenAPISpec ==
  [openapi |-> "3.1.1",
   info |-> [title |-> defaultConfig.apiTitle,
             description |-> defaultConfig.apiDescription,
             version |-> defaultConfig.apiVersion,
             contact |-> [name |-> defaultConfig.contactName, url |-> defaultConfig.contactUrl],
             license |-> [name |-> "Proprietary", url |-> defaultConfig.licenseUrl]],
   servers |-> <<[url |-> defaultConfig.serverUrl, description |-> "Nitrado API Server"]>>,
   paths |-> <<>>,
   pathKeys |-> <<>>,
   components |-> [schemas |-> <<>>,
                   securitySchemes |->
                     [BearerAuth |-> [type |-> "http", scheme |-> "bearer",
                                      description |-> "Bearer token authentication"]]]]

\* url.replace(/:(\w+)/g, '{$1}')
RECURSIVE wordPrefixLen(_)
wordPrefixLen(s) ==
  IF s # <<>> /\ IsWordChar(s[1]) THEN 1 + wordPrefixLen(Tail(s)) ELSE 0

\* url.replace(/:(\w+)/, '{$1}'), without the g flag: the first marker only
RECURSIVE normalizePathFirstOnly(_)
normalizePathFirstOnly(url) ==
  IF url = <<>> THEN <<>>
  ELSE IF url[1] = ":" /\ wordPrefixLen(Tail(url)) > 0
    THEN LET n == wordPrefixLen(Tail(url))
         IN  <<"{">> \o SubSeq(url, 2, n + 1) \o <<"}">> \o SubSeq(url, n + 2, Len(url))
  ELSE <<url[1]>> \o normalizePathFirstOnly(Tail(url))

RECURSIVE normalizePath(_)
normalizePath(url) ==
  IF url = <<>> THEN <<>>
  ELSE IF url[1] = ":" /\ wordPrefixLen(Tail(url)) > 0
    THEN LET n == wordPrefixLen(Tail(url))
         IN  <<"{">> \o SubSeq(url, 2, n + 1) \o <<"}">>
               \o normalizePath(SubSeq(url, n + 2, Len(url)))
  ELSE <<url[1]>> \o normalizePath(Tail(url))

\* An OpenAPI schema; items is '' unless the type is array
Schema(type, items) == [type |-> type, items |-> items]

StringSchema == Schema("string", "")

\* Object.keys(typeMap), in declaration order
typeMapKeys ==
  << <<"s","t","r","i","n","g">>,
     <<"n","u","m","b","e","r">>,
     <<"i","n","t","e","g","e","r">>,
     <<"i","n","t">>,
     <<"b","o","o","l","e","a","n">>,
     <<"b","o","o","l">>,
     <<"a","r","r","a","y">>,
     <<"o","b","j","e","c","t">> >>

\* The schema each key of typeMap produces
typeMap ==
  << Schema("string", ""), Schema("integer", ""), Schema("integer", ""),
     Schema("integer", ""), Schema("boolean", ""), Schema("boolean", ""),
     Schema("array", "string"), Schema("object", "") >>

\* String.prototype.indexOf, counted from 1; 0 when sub does not occur
indexOf(s, sub) ==
  LET hits == {i \in 1..(Len(s) - Len(sub) + 1) : SubSeq(s, i, i + Len(sub) - 1) = sub}
  IN  IF hits = {} THEN 0 ELSE CHOOSE i \in hits : \A j \in hits : i <= j

\* parseParameterType deciding by the key that occurs leftmost in the token
parseParameterTypeByTokenOrder(type) ==
  IF ~truthy(type) THEN StringSchema
  ELSE LET normalizedType == toLowerCase(type)
           matching == {i \in DOMAIN typeMapKeys : includes(normalizedType, typeMapKeys[i])}
       IN  IF matching = {} THEN StringSchema
           ELSE typeMap[CHOOSE i \in matching :
                          \A j \in matching :
                            \/ indexOf(normalizedType, typeMapKeys[i]) < indexOf(normalizedType, typeMapKeys[j])
                            \/ /\ indexOf(normalizedType, typeMapKeys[i]) = indexOf(normalizedType, typeMapKeys[j])
                               /\ i <= j]

\* parseParameterType: Object.keys(typeMap).find(key => normalizedType.includes(key))
parseParameterType(type) ==
  IF ~truthy(type) THEN StringSchema
  ELSE LET normalizedType == toLowerCase(type)
           matching == {i \in DOMAIN typeMapKeys : includes(normalizedType, typeMapKeys[i])}
       IN  IF matching = {} THEN StringSchema
           ELSE typeMap[CHOOSE i \in matching : \A j \in matching : i <= j]

\* An entry of operation.parameters
Parameter(name, in, required, schema, description) ==
  [name |-> name, in |-> in, required |-> required, schema |-> schema,
   description |-> description]

\* path.match(/\{(\w+)\}/g) mapped to path parameters
RECURSIVE extractPathParameters(_)
extractPathParameters(path) ==
  IF path = <<>> THEN <<>>
  ELSE IF path[1] = "{"
    THEN LET n == wordPrefixLen(Tail(path))
         IN  IF n > 0 /\ Len(path) >= n + 2 /\ path[n + 2] = "}"
               THEN LET paramName == SubSeq(path, 2, n + 1)
                    IN  <<Parameter(paramName, "path", TRUE, StringSchema,
                                    <<"T","h","e"," ">> \o paramName \o <<" ","p","a","r","a","m","e","t","e","r">>)>>
                          \o extractPathParameters(SubSeq(path, n + 3, Len(path)))
               ELSE extractPathParameters(Tail(path))
  ELSE extractPathParameters(Tail(path))

\* endpoint.parameter?.fields and its like
fieldsOf(group) == IF group.kind = "undefined" THEN NoFields ELSE group.fields

\* fields[label1] || fields[label2] || []
firstTruthyLabel(fields, label1, label2) ==
  IF fields.labels[label1].kind # "undefined" THEN fields.labels[label1]
  ELSE IF fields.labels[label2].kind # "undefined" THEN fields.labels[label2]
  ELSE LabelValue("array", <<>>)

\* param.description || ''
descriptionOf(param) == IF truthy(param.description) THEN param.description ELSE <<>>

\* The parameters extracted, or the message of the error thrown
extractQueryParameters(endpoint) ==
  LET parameterFields == fieldsOf(endpoint.parameter)
  IN  IF parameterFields.kind = "undefined" THEN [error |-> "", params |-> <<>>]
      ELSE LET queryParams == firstTruthyLabel(parameterFields, "Parameter", "Query")
           IN  IF queryParams.kind # "array"
                 THEN [error |-> "TypeError: queryParams.map is not a function",
                       params |-> <<>>]
                 ELSE [error |-> "",
                       params |-> [i \in DOMAIN queryParams.items |->
                                     LET param == queryParams.items[i]
                                     IN  Parameter(param.field, "query", ~param.optional,
                                                   parseParameterType(param.type),
                                                   descriptionOf(param))]]

extractHeaderParameters(endpoint) ==
  LET headerFields == fieldsOf(endpoint.header)
  IN  IF headerFields.kind = "undefined" THEN [error |-> "", params |-> <<>>]
      ELSE LET headerParams == firstTruthyLabel(headerFields, "Header", "Header")
           IN  IF headerParams.kind # "array"
                 THEN [error |-> "TypeError: headerParams.map is not a function",
                       params |-> <<>>]
                 ELSE [error |-> "",
                       params |-> [i \in DOMAIN headerParams.items |->
                                     LET param == headerParams.items[i]
                                     IN  Parameter(param.field, "header", ~param.optional,
                                                   StringSchema, descriptionOf(param))]]

\* addParameters with the path parameters pushed last
addParametersPathLast(endpoint, path) ==
  LET pathParams == extractPathParameters(path)
      query == extractQueryParameters(endpoint)
      header == extractHeaderParameters(endpoint)
  IN  IF query.error # "" THEN [error |-> query.error, parameters |-> <<>>]
      ELSE IF header.error # "" THEN [error |-> header.error, parameters |-> <<>>]
      ELSE [error |-> "", parameters |-> query.params \o header.params \o pathParams]

\* addParameters: operation.parameters after the push, or the error thrown
addParameters(endpoint, path) ==
  LET pathParams == extractPathParameters(path)
      query == extractQueryParameters(endpoint)
      header == extractHeaderParameters(endpoint)
  IN  IF query.error # "" THEN [error |-> query.error, parameters |-> <<>>]
      ELSE IF header.error # "" THEN [error |-> header.error, parameters |-> <<>>]
      ELSE [error |-> "", parameters |-> pathParams \o query.params \o header.params]

\* One entry of a `properties` object
Property(name, schema, description) ==
  [name |-> name, schema |-> schema, description |-> description]

\* properties[name] = value: a new key is appended, a known key keeps its place
RECURSIVE putProperty(_, _)
putProperty(properties, property) ==
  IF properties = <<>> THEN <<property>>
  ELSE IF Head(properties).name = property.name THEN <<property>> \o Tail(properties)
  ELSE <<Head(properties)>> \o putProperty(Tail(properties), property)

\* The forEach of buildRequestBodySchema and of buildResponseProperties
RECURSIVE buildProperties(_, _)
buildProperties(fields, properties) ==
  IF fields = <<>> THEN properties
  ELSE buildProperties(Tail(fields),
         putProperty(properties,
                     Property(Head(fields).field, parseParameterType(Head(fields).type),
                              descriptionOf(Head(fields)))))

buildResponseProperties(fields) == buildProperties(fields, <<>>)

\* The names pushed to `required`, in field order
RECURSIVE requiredNames(_)
requiredNames(bodyParams) ==
  IF bodyParams = <<>> THEN <<>>
  ELSE (IF ~Head(bodyParams).optional THEN <<Head(bodyParams).field>> ELSE <<>>)
         \o requiredNames(Tail(bodyParams))

buildRequestBodySchema(bodyParams) ==
  [properties |-> buildProperties(bodyParams, <<>>), required |-> requiredNames(bodyParams)]

\* operation.requestBody; `required` of the schema is there only when not empty
NoRequestBody ==
  [present |-> FALSE, required |-> FALSE,
   schema |-> [properties |-> <<>>, hasRequired |-> FALSE, required |-> <<>>]]

extractBodyParameters(endpoint) ==
  LET parameterFields == fieldsOf(endpoint.parameter)
  IN  IF parameterFields.kind = "undefined" THEN LabelValue("array", <<>>)
      ELSE firstTruthyLabel(parameterFields, "Body", "Request")

\* addRequestBody: the requestBody set on the operation, or the error thrown
addRequestBody(endpoint) ==
  LET bodyParams == extractBodyParameters(endpoint)
  IN  IF bodyParams.kind = "array" /\ Len(bodyParams.items) = 0
        THEN [error |-> "", requestBody |-> NoRequestBody]
      ELSE IF bodyParams.kind # "array"
        THEN [error |-> "TypeError: bodyParams.forEach is not a function",
              requestBody |-> NoRequestBody]
      ELSE LET built == buildRequestBodySchema(bodyParams.items)
           IN  [error |-> "",
                requestBody |->
                  [present |-> TRUE,
                   required |-> Len(built.required) > 0,
                   schema |-> [properties |-> built.properties,
                               hasRequired |-> Len(built.required) > 0,
                               required |-> built.required]]]

methodsWithBody ==
  { <<"p","o","s","t">>, <<"p","u","t">>, <<"p","a","t","c","h">> }

\* addRequestBodyIfNeeded with the method test dropped
addRequestBodyIfNeededAnyMethod(endpoint, method) == addRequestBody(endpoint)

addRequestBodyIfNeeded(endpoint, method) ==
  IF method \in methodsWithBody THEN addRequestBody(endpoint)
  ELSE [error |-> "", requestBody |-> NoRequestBody]

\* One entry of operation.responses; a response without content has no schema
Response(code, description, hasContent, hasProperties, properties) ==
  [code |-> code, description |-> description,
   content |-> [present |-> hasContent,
                schema |-> [type |-> "object", hasProperties |-> hasProperties,
                            properties |-> properties]]]

extractSuccessFields(endpoint) ==
  LET successFields == fieldsOf(endpoint.success)
  IN  IF successFields.kind = "undefined" THEN LabelValue("array", <<>>)
      ELSE firstTruthyLabel(successFields, "Success 200", "Success")

\* buildSuccessResponse: the 200 response, or the error thrown
buildSuccessResponse(endpoint) ==
  LET successFields == extractSuccessFields(endpoint)
  IN  IF successFields.kind = "array" /\ Len(successFields.items) = 0
        THEN [error |-> "",
              response |-> Response("200", "Successful operation", TRUE, FALSE, <<>>)]
      ELSE IF successFields.kind # "array"
        THEN [error |-> "TypeError: fields.forEach is not a function",
              response |-> Response("200", "Successful operation", TRUE, FALSE, <<>>)]
      ELSE [error |-> "",
            response |-> Response("200", "Successful operation", TRUE, TRUE,
                                  buildResponseProperties(successFields.items))]

\* (errorFields['Error 4xx'] || errorFields.Error || []).length > 0: a list has
\* its length, a non-empty string has a positive length, {} has none
hasErrorFields(endpoint) ==
  LET errorFields == fieldsOf(endpoint.error)
  IN  IF errorFields.kind = "undefined" THEN FALSE
      ELSE LET declared == firstTruthyLabel(errorFields, "Error 4xx", "Error")
           IN  CASE declared.kind = "array" -> Len(declared.items) > 0
                 [] declared.kind = "string" -> TRUE
                 [] OTHER -> FALSE

\* The schema { error: { type: object, properties: { message: { type: string } } } }
errorSchemaProperties ==
  <<Property(<<"e","r","r","o","r">>, Schema("object", "message:string"), undefined)>>

\* buildErrorResponse that never adds the 400 response
buildErrorResponseNever(endpoint) == <<>>

\* buildErrorResponse: the responses spread into operation.responses
buildErrorResponse(endpoint) ==
  IF hasErrorFields(endpoint)
    THEN <<Response("400", "Bad Request", TRUE, TRUE, errorSchemaProperties)>>
    ELSE <<>>

buildStandardResponses ==
  << Response("401", "Unauthorized", FALSE, FALSE, <<>>),
     Response("403", "Forbidden", FALSE, FALSE, <<>>),
     Response("404", "Not Found", FALSE, FALSE, <<>>),
     Response("500", "Internal Server Error", FALSE, FALSE, <<>>) >>

\* addResponses: the entries of operation.responses in the order of its keys
\* (status codes, ascending), or the error thrown
addResponses(endpoint) ==
  LET successResponse == buildSuccessResponse(endpoint)
  IN  IF successResponse.error # ""
        THEN [error |-> successResponse.error, responses |-> <<>>]
        ELSE [error |-> "",
              responses |-> <<successResponse.response>>
                              \o buildErrorResponse(endpoint)
                              \o buildStandardResponses]

\* operation.security; absent for a public endpoint
NoSecurity == [present |-> FALSE, value |-> <<>>]

\* addSecurityIfNeeded that skips the test of endpoint.public
addSecurityIfNeededAlways(endpoint) ==
  [present |-> TRUE, value |-> <<[BearerAuth |-> <<>>]>>]

addSecurityIfNeeded(endpoint) ==
  IF ~endpoint.public
    THEN [present |-> TRUE, value |-> <<[BearerAuth |-> <<>>]>>]
    ELSE NoSecurity

\* String.prototype.toUpperCase
toUpperCase(s) == [i \in 1..Len(s) |-> CharToUpper(s[i])]

\* addDeprecationInfo: the deprecated flag and the description of the operation
addDeprecationInfo(endpoint, description) ==
  IF ~endpoint.deprecated.present THEN [deprecated |-> FALSE, description |-> description]
  ELSE [deprecated |-> TRUE,
        description |->
          IF truthy(endpoint.deprecated.content)
            THEN description \o <<"\n","\n","*","*","D","e","p","r","e","c","a","t","e","d",":","*","*"," ">> \o endpoint.deprecated.content
            ELSE description]

\* The value of a slot for which no operation was built
NoOperation ==
  [summary |-> undefined, description |-> <<>>, deprecated |-> FALSE,
   operationId |-> undefined, tags |-> <<>>, parameters |-> <<>>,
   requestBody |-> NoRequestBody, responses |-> <<>>, security |-> NoSecurity]

\* The operation built for a record, the ledger after its identifier is
\* reserved, and the message of the error thrown while building ("" for none).
\* The identifier, the parameters, the request body and the responses are each
\* computed once and bound
buildOperation(endpoint, path, method, used) ==
  CHOOSE built \in
    { LET deprecation == addDeprecationInfo(endpoint,
                           IF truthy(endpoint.description) THEN endpoint.description ELSE <<>>)
          error == IF parameters.error # "" THEN parameters.error
                   ELSE IF requestBody.error # "" THEN requestBody.error
                   ELSE responses.error
      IN  [error |-> error,
           operation |->
             IF error # "" THEN NoOperation
             ELSE [summary |-> IF truthy(endpoint.title) THEN endpoint.title
                               ELSE IF truthy(endpoint.name) THEN endpoint.name
                               ELSE toUpperCase(method) \o <<" ">> \o path,
                   description |-> deprecation.description,
                   deprecated |-> deprecation.deprecated,
                   operationId |-> reserved.id,
                   tags |-> <<IF truthy(endpoint.group) THEN endpoint.group ELSE DefaultGroup>>,
                   parameters |-> parameters.parameters,
                   requestBody |-> requestBody.requestBody,
                   responses |-> responses.responses,
                   security |-> addSecurityIfNeeded(endpoint)],
           used |-> reserved.used] :
        reserved \in {ensureUniqueOperationId(used, baseOperationId) :
                        baseOperationId \in {generateOperationId(endpoint)}},
        parameters \in {addParameters(endpoint, path)},
        requestBody \in {addRequestBodyIfNeeded(endpoint, method)},
        responses \in {addResponses(endpoint)} } : TRUE

\* if (!paths[path]) paths[path] = {}
ensurePathExists(paths, path) ==
  IF path \in DOMAIN paths THEN paths ELSE (path :> <<>>) @@ paths

\* convertEndpoint without the early return for a record without URL
convertEndpointWithoutSkip(endpoint, acc) ==
  LET path == normalizePath(IF truthy(endpoint.url) THEN endpoint.url ELSE <<>>)
      normalizedMethod ==
        toLowerCase(IF endpoint.type = undefined THEN GetMethod ELSE endpoint.type)
      paths == ensurePathExists(acc.paths, path)
      keys == IF path \in DOMAIN acc.paths THEN acc.keys ELSE Append(acc.keys, path)
  IN  CHOOSE next \in
        { IF b.error # ""
            THEN [paths |-> paths, keys |-> keys, used |-> b.used, built |-> acc.built, error |-> b.error]
            ELSE [paths |-> [paths EXCEPT ![path] = (normalizedMethod :> b.operation) @@ @],
                  keys |-> keys,
                  used |-> b.used,
                  built |-> Append(acc.built, b.operation),
                  error |-> ""] :
            b \in {buildOperation(endpoint, path, normalizedMethod, acc.used)} } : TRUE

\* convertEndpoint that leaves a slot alone once an operation is in it
convertEndpointKeepingFirst(endpoint, acc) ==
  IF ~truthy(endpoint.url)
    THEN [acc EXCEPT !.built = Append(@, NoOperation)]
    ELSE LET path == normalizePath(endpoint.url)
             normalizedMethod ==
               toLowerCase(IF endpoint.type = undefined THEN GetMethod ELSE endpoint.type)
             paths == ensurePathExists(acc.paths, path)
             keys == IF path \in DOMAIN acc.paths THEN acc.keys ELSE Append(acc.keys, path)
         IN  CHOOSE next \in
               { IF b.error # ""
                   THEN [paths |-> paths, keys |-> keys, used |-> b.used, built |-> acc.built,
                         error |-> b.error]
                   ELSE [paths |-> [paths EXCEPT ![path] = paths[path] @@ (normalizedMethod :> b.operation)],
                         keys |-> keys,
                         used |-> b.used,
                         built |-> Append(acc.built, b.operation),
                         error |-> ""] :
                   b \in {buildOperation(endpoint, path, normalizedMethod, acc.used)} } : TRUE

\* One round of the forEach of convertToOpenAPI. acc holds the paths of the
\* document under construction, the ledger, per input record the operation
\* built for it (NoOperation for a skipped record), and the message of the
\* error thrown ("" for none)
convertEndpoint(endpoint, acc) ==
  IF ~truthy(endpoint.url)
    THEN [acc EXCEPT !.built = Append(@, NoOperation)]
    ELSE LET path == normalizePath(endpoint.url)
             normalizedMethod ==
               toLowerCase(IF endpoint.type = undefined THEN GetMethod ELSE endpoint.type)
             paths == ensurePathExists(acc.paths, path)
             keys == IF path \in DOMAIN acc.paths THEN acc.keys ELSE Append(acc.keys, path)
         IN  CHOOSE next \in
               { IF b.error # ""
                   THEN [paths |-> paths, keys |-> keys, used |-> b.used, built |-> acc.built,
                         error |-> b.error]
                   ELSE [paths |-> [paths EXCEPT ![path] = (normalizedMethod :> b.operation) @@ @],
                         keys |-> keys,
                         used |-> b.used,
                         built |-> Append(acc.built, b.operation),
                         error |-> ""] :
                   b \in {buildOperation(endpoint, path, normalizedMethod, acc.used)} } : TRUE

\* this.apiData.api.forEach(...): an error thrown in one round ends the loop
RECURSIVE convertEndpoints(_, _)
convertEndpoints(api, acc) ==
  IF api = <<>> THEN acc
  ELSE CHOOSE result \in
         { IF next.error # "" THEN next ELSE convertEndpoints(Tail(api), next) :
             next \in {convertEndpoint(Head(api), acc)} } : TRUE

\* The properties every object inherits from Object.prototype: groups[group]
\* is truthy for them although no endpoint was filed under that group
inheritedProperties ==
  { <<"c","o","n","s","t","r","u","c","t","o","r">>, <<"h","a","s","O","w","n","P","r","o","p","e","r","t","y">>, <<"i","s","P","r","o","t","o","t","y","p","e","O","f">>, <<"p","r","o","p","e","r","t","y","I","s","E","n","u","m","e","r","a","b","l","e">>,
    <<"t","o","L","o","c","a","l","e","S","t","r","i","n","g">>, <<"t","o","S","t","r","i","n","g">>, <<"v","a","l","u","e","O","f">>, <<"_","_","p","r","o","t","o","_","_">>,
    <<"_","_","d","e","f","i","n","e","G","e","t","t","e","r","_","_">>, <<"_","_","d","e","f","i","n","e","S","e","t","t","e","r","_","_">>, <<"_","_","l","o","o","k","u","p","G","e","t","t","e","r","_","_">>, <<"_","_","l","o","o","k","u","p","S","e","t","t","e","r","_","_">> }

\* groupEndpointsByGroup, of which convertToOpenAPI logs the number of groups:
\* the message of the error it throws ("" for none). For a group with the name
\* of an inherited property no list is created, and groups[group].push fails
groupEndpointsByGroup(api) ==
  IF \E k \in DOMAIN api :
       (IF truthy(api[k].group) THEN api[k].group ELSE DefaultGroup) \in inheritedProperties
    THEN "TypeError: groups[group].push is not a function"
    ELSE ""

\* What stands for the returned document when the call threw: nothing is returned
NoDocument == [createBaseOpenAPISpec EXCEPT !.openapi = ""]

\* The message of the error validateAPIData throws
NoDataError == "No API data available. Please fetch data first."

\* convertToOpenAPI without this.usedOperationIds.clear()
convertToOpenAPIKeepingLedger(data, used) ==
  IF data.isNull \/ data.api.kind = "undefined"
    THEN [error |-> NoDataError,
          doc |-> NoDocument, used |-> used, built |-> <<>>]
  ELSE IF data.api.kind # "array"
    THEN [error |-> "TypeError: this.apiData.api.reduce is not a function",
          doc |-> NoDocument, used |-> used, built |-> <<>>]
  ELSE IF groupEndpointsByGroup(data.api.items) # ""
    THEN [error |-> groupEndpointsByGroup(data.api.items),
          doc |-> NoDocument, used |-> used, built |-> <<>>]
  ELSE CHOOSE outcome \in
         { IF acc.error # ""
             THEN [error |-> acc.error, doc |-> NoDocument, used |-> acc.used,
                   built |-> <<>>]
             ELSE [error |-> "",
                   doc |-> [createBaseOpenAPISpec EXCEPT !.paths = acc.paths,
                                                        !.pathKeys = acc.keys],
                   used |-> acc.used,
                   built |-> acc.built] :
             acc \in {convertEndpoints(data.api.items,
                                       [paths |-> <<>>, keys |-> <<>>, used |-> used, built |-> <<>>,
                                        error |-> ""])} } : TRUE

\* The outcome of convertToOpenAPI on the loaded data: the error thrown ("" for
\* none), the document returned, the ledger left behind and the operations built
convertToOpenAPI(data, used) ==
  IF data.isNull \/ data.api.kind = "undefined"
    THEN [error |-> NoDataError,
          doc |-> NoDocument, used |-> used, built |-> <<>>]
  ELSE IF data.api.kind # "array"
    THEN [error |-> "TypeError: this.apiData.api.reduce is not a function",
          doc |-> NoDocument, used |-> {}, built |-> <<>>]
  ELSE IF groupEndpointsByGroup(data.api.items) # ""
    THEN [error |-> groupEndpointsByGroup(data.api.items),
          doc |-> NoDocument, used |-> {}, built |-> <<>>]
  ELSE CHOOSE outcome \in
         { IF acc.error # ""
             THEN [error |-> acc.error, doc |-> NoDocument, used |-> acc.used,
                   built |-> <<>>]
             ELSE [error |-> "",
                   doc |-> [createBaseOpenAPISpec EXCEPT !.paths = acc.paths,
                                                        !.pathKeys = acc.keys],
                   used |-> acc.used,
                   built |-> acc.built] :
             acc \in {convertEndpoints(data.api.items,
                                       [paths |-> <<>>, keys |-> <<>>, used |-> {}, built |-> <<>>,
                                        error |-> ""])} } : TRUE

(***************************************************************************)
(* Inputs of the model.                                                    *)
(***************************************************************************)

\* Largest number of records in a loaded endpoint list
MaxRecords == 3

\* Largest ledger on which ensureUniqueOperationId is still called directly
MaxLedger == 3

Instances == {"A", "B"}

Details == <<"D","e","t","a","i","l","s">>

GameGroup == <<"G","a","m","e">>

\* '/a/:b/c' and '/a/b/c' differ, and their segments PascalCase alike
UrlParam == <<"/","a","/",":","b","/","c">>

UrlLiteral == <<"/","a","/","b","/","c">>

UrlOther == <<"/","a","/","b","/","d">>

EndpointPool ==
  { Endpoint(Details, UrlParam, <<"g","e","t">>, GameGroup),
    Endpoint(Details, UrlLiteral, <<"g","e","t">>, GameGroup),
    Endpoint(Details, UrlOther, <<"P","O","S","T">>, GameGroup),
    Endpoint(Details, undefined, <<"g","e","t">>, GameGroup),
    Endpoint(undefined, UrlParam, undefined, undefined),
    Endpoint(<<"Z","o","r","k">>, UrlLiteral, <<"g","e","t">>, DefaultGroup) }

RECURSIVE SeqsUpTo(_, _)
SeqsUpTo(S, n) ==
  IF n = 0 THEN {<<>>}
  ELSE LET shorter == SeqsUpTo(S, n - 1)
       IN  shorter \cup {Append(q, x) : q \in shorter, x \in S}

\* What apiData can hold once a payload was parsed
LoadedData ==
  {NullData, ApiDocument("undefined", <<>>), ApiDocument("object", <<>>)}
    \cup {ApiDocument("array", api) : api \in SeqsUpTo(EndpointPool, MaxRecords)}

\* Identifiers reserved by direct calls of ensureUniqueOperationId
BaseIds ==
  { <<"X">>, <<"X","2">>, <<"X","3">>, <<"G","a","m","e","A","B","C","D","e","t","a","i","l","s">> }

(***************************************************************************)
(* The converter instances and their methods.                              *)
(***************************************************************************)

\* The method called last on an instance, with its argument, the message of
\* the error it threw ("" for none) and the value it returned
Call(op, baseId, endpoint, error, id, doc, built) ==
  [op |-> op, baseId |-> baseId, endpoint |-> endpoint, error |-> error,
   id |-> id, doc |-> doc, built |-> built, token |-> undefined, schema |-> StringSchema]

\* Placeholder of a call record: no endpoint passed
NoEndpoint == Endpoint(undefined, undefined, undefined, undefined)

Constructed == Call("constructor", <<>>, NoEndpoint, "", <<>>, NoDocument, <<>>)

\* JavaScript a || b on optional strings
orElse(a, b) == IF truthy(a) THEN a ELSE b

\* The string settings of the configuration: for each the option of the
\* command line and the environment variable it is read from
optionOf ==
  [apiDataUrl |-> "apiUrl", outputDir |-> "outputDir", serverUrl |-> "serverUrl",
   apiTitle |-> "apiTitle", apiDescription |-> "apiDescription",
   apiVersion |-> "apiVersion", contactName |-> "contactName",
   contactUrl |-> "contactUrl", licenseUrl |-> "licenseUrl"]

variableOf ==
  [apiDataUrl |-> "NITRADO_API_URL", outputDir |-> "NITRADO_OUTPUT_DIR",
   serverUrl |-> "NITRADO_SERVER_URL", apiTitle |-> "NITRADO_API_TITLE",
   apiDescription |-> "NITRADO_API_DESCRIPTION", apiVersion |-> "NITRADO_API_VERSION",
   contactName |-> "NITRADO_CONTACT_NAME", contactUrl |-> "NITRADO_CONTACT_URL",
   licenseUrl |-> "NITRADO_LICENSE_URL"]

\* The literals that end the || chains of getConfig; the API URL has none
builtIn ==
  [apiDataUrl |-> undefined,
   outputDir |-> <<".","/","o","u","t","p","u","t">>,
   serverUrl |-> <<"h","t","t","p","s",":","/","/","a","p","i",".","n","i","t","r","a","d","o",".","n","e","t">>,
   apiTitle |-> <<"N","i","t","r","a","d","o"," ","A","P","I">>,
   apiDescription |-> <<"O","f","f","i","c","i","a","l"," ","N","i","t","r","a","d","o"," ","A","P","I"," ","f","o","r"," ","m","a","n","a","g","i","n","g"," ","g","a","m","e"," ","s","e","r","v","e","r","s",","," ","d","o","m","a","i","n","s",","," ","a","n","d"," ","o","t","h","e","r"," ","s","e","r","v","i","c","e","s">>,
   apiVersion |-> <<"1",".","0",".","0">>,
   contactName |-> <<"N","i","t","r","a","d","o"," ","S","u","p","p","o","r","t">>,
   contactUrl |-> <<"h","t","t","p","s",":","/","/","n","i","t","r","a","d","o",".","n","e","t","/","s","u","p","p","o","r","t">>,
   licenseUrl |-> <<"h","t","t","p","s",":","/","/","n","i","t","r","a","d","o",".","n","e","t","/","t","e","r","m","s">>]

\* setupCommandLine: the default value each option is declared with, read from
\* the environment when the Config is constructed; --api-url and
\* --api-description are declared with the bare environment variable
optionDefault(env) ==
  [setting \in DOMAIN optionOf |->
     IF setting \in {"apiDataUrl", "apiDescription"}
       THEN env[variableOf[setting]]
       ELSE orElse(env[variableOf[setting]], builtIn[setting])]

\* program.parse() and program.opts(): an option given on the command line
\* holds its argument, an option not given holds its declared default; the
\* flags --verbose and --dry-run hold true when given
programOpts(argv, env) ==
  [apiUrl |-> IF argv.apiUrl # undefined THEN argv.apiUrl ELSE optionDefault(env).apiDataUrl,
   outputDir |-> IF argv.outputDir # undefined THEN argv.outputDir ELSE optionDefault(env).outputDir,
   serverUrl |-> IF argv.serverUrl # undefined THEN argv.serverUrl ELSE optionDefault(env).serverUrl,
   apiTitle |-> IF argv.apiTitle # undefined THEN argv.apiTitle ELSE optionDefault(env).apiTitle,
   apiDescription |-> IF argv.apiDescription # undefined THEN argv.apiDescription
                      ELSE optionDefault(env).apiDescription,
   apiVersion |-> IF argv.apiVersion # undefined THEN argv.apiVersion ELSE optionDefault(env).apiVersion,
   contactName |-> IF argv.contactName # undefined THEN argv.contactName ELSE optionDefault(env).contactName,
   contactUrl |-> IF argv.contactUrl # undefined THEN argv.contactUrl ELSE optionDefault(env).contactUrl,
   licenseUrl |-> IF argv.licenseUrl # undefined THEN argv.licenseUrl ELSE optionDefault(env).licenseUrl,
   verbose |-> argv.verbose,
   dryRun |-> argv.dryRun]

\* getConfig that asks the environment before the command line
getConfigEnvironmentFirst(options, env) ==
  [options |-> options, env |-> env,
   apiDataUrl |-> orElse(env.NITRADO_API_URL, options.apiUrl),
   outputDir |-> orElse(orElse(env.NITRADO_OUTPUT_DIR, options.outputDir), builtIn.outputDir),
   serverUrl |-> orElse(orElse(env.NITRADO_SERVER_URL, options.serverUrl), builtIn.serverUrl),
   apiTitle |-> orElse(orElse(env.NITRADO_API_TITLE, options.apiTitle), builtIn.apiTitle),
   apiDescription |-> orElse(orElse(env.NITRADO_API_DESCRIPTION, options.apiDescription),
                             builtIn.apiDescription),
   apiVersion |-> orElse(orElse(env.NITRADO_API_VERSION, options.apiVersion), builtIn.apiVersion),
   contactName |-> orElse(orElse(env.NITRADO_CONTACT_NAME, options.contactName), builtIn.contactName),
   contactUrl |-> orElse(orElse(env.NITRADO_CONTACT_URL, options.contactUrl), builtIn.contactUrl),
   licenseUrl |-> orElse(orElse(env.NITRADO_LICENSE_URL, options.licenseUrl), builtIn.licenseUrl),
   verbose |-> options.verbose \/ env.NITRADO_VERBOSE = "true",
   dryRun |-> options.dryRun \/ env.NITRADO_DRY_RUN = "true"]

\* Config.getConfig: each setting is options.x || process.env.NITRADO_X ||
\* literal; the flags are options.x || process.env.NITRADO_X === 'true'
getConfig(options, env) ==
  [options |-> options, env |-> env,
   apiDataUrl |-> orElse(options.apiUrl, env.NITRADO_API_URL),
   outputDir |-> orElse(orElse(options.outputDir, env.NITRADO_OUTPUT_DIR), builtIn.outputDir),
   serverUrl |-> orElse(orElse(options.serverUrl, env.NITRADO_SERVER_URL), builtIn.serverUrl),
   apiTitle |-> orElse(orElse(options.apiTitle, env.NITRADO_API_TITLE), builtIn.apiTitle),
   apiDescription |-> orElse(orElse(options.apiDescription, env.NITRADO_API_DESCRIPTION),
                             builtIn.apiDescription),
   apiVersion |-> orElse(orElse(options.apiVersion, env.NITRADO_API_VERSION), builtIn.apiVersion),
   contactName |-> orElse(orElse(options.contactName, env.NITRADO_CONTACT_NAME), builtIn.contactName),
   contactUrl |-> orElse(orElse(options.contactUrl, env.NITRADO_CONTACT_URL), builtIn.contactUrl),
   licenseUrl |-> orElse(orElse(options.licenseUrl, env.NITRADO_LICENSE_URL), builtIn.licenseUrl),
   verbose |-> options.verbose \/ env.NITRADO_VERBOSE = "true",
   dryRun |-> options.dryRun \/ env.NITRADO_DRY_RUN = "true"]

\* The environment of the .env example, without the variables that are left
\* to their defaults
NoEnv ==
  [NITRADO_API_URL |-> <<"h","t","t","p","s",":","/","/","d","o","c",".","n","i","t","r","a","d","o",".","n","e","t","/","a","p","i","_","d","a","t","a",".","j","s">>,
   NITRADO_OUTPUT_DIR |-> undefined, NITRADO_SERVER_URL |-> undefined,
   NITRADO_API_TITLE |-> undefined, NITRADO_API_DESCRIPTION |-> undefined,
   NITRADO_API_VERSION |-> undefined, NITRADO_CONTACT_NAME |-> undefined,
   NITRADO_CONTACT_URL |-> undefined, NITRADO_LICENSE_URL |-> undefined,
   NITRADO_VERBOSE |-> "", NITRADO_DRY_RUN |-> ""]

\* Nothing on the command line
NoArguments ==
  [apiUrl |-> undefined, outputDir |-> undefined, serverUrl |-> undefined,
   apiTitle |-> undefined, apiDescription |-> undefined, apiVersion |-> undefined,
   contactName |-> undefined, contactUrl |-> undefined, licenseUrl |-> undefined,
   verbose |-> FALSE, dryRun |-> FALSE]

\* The options of a command line without arguments
NoOptions == programOpts(NoArguments, NoEnv)

\* A call the script or the converter makes to axios, fs or process, a
\* conversion it starts, or an error it catches
Event(op, arg) == [op |-> op, arg |-> arg]

\* No script runs: the converter is used through its methods
NoScript ==
  /\ pc = [self \in Instances |-> "idle"]
  /\ calls = <<>>
  /\ config = getConfig(NoOptions, NoEnv)

\* constructor: no data, an empty ledger
Init ==
  /\ apiData = [self \in Instances |-> NullData]
  /\ usedOperationIds = [self \in Instances |-> {}]
  /\ lastCall = [self \in Instances |-> Constructed]
  /\ NoScript

\* fetchAPIData that assigns this.apiData before the payload is parsed: a
\* failure leaves nothing usable in it
FetchAPIDataAssigningFirst(self, response) ==
  /\ apiData' = [apiData EXCEPT ![self] = response.data]
  /\ lastCall' = [lastCall EXCEPT ![self] =
                    Call("fetchAPIData", <<>>, NoEndpoint, response.failure, <<>>,
                         NoDocument, <<>>)]
  /\ UNCHANGED usedOperationIds
  /\ UNCHANGED scriptVars

\* fetchAPIData: apiData is assigned once the response is there and parsed
FetchAPIData(self, response) ==
  IF response.failure # ""
    THEN /\ lastCall' = [lastCall EXCEPT ![self] = Call("fetchAPIData", <<>>, NoEndpoint, response.failure, <<>>, NoDocument, <<>>)]
         /\ UNCHANGED <<apiData, usedOperationIds>>
         /\ UNCHANGED scriptVars
    ELSE /\ apiData' = [apiData EXCEPT ![self] = response.data]
         /\ lastCall' = [lastCall EXCEPT ![self] = Call("fetchAPIData", <<>>, NoEndpoint, "", <<>>, NoDocument, <<>>)]
         /\ UNCHANGED usedOperationIds
         /\ UNCHANGED scriptVars

\* convertToOpenAPI on a ledger that all instances share
ConvertToOpenAPISharedLedger(self) ==
  \E out \in {convertToOpenAPI(apiData[self], usedOperationIds[self])} :
      /\ usedOperationIds' = [other \in Instances |-> out.used]
      /\ lastCall' = [lastCall EXCEPT ![self] =
                        Call("convertToOpenAPI", <<>>, NoEndpoint, out.error, <<>>,
                             out.doc, out.built)]
      /\ UNCHANGED apiData
      /\ UNCHANGED scriptVars

\* convertToOpenAPI that removes the records it skips from the loaded list
ConvertToOpenAPIDroppingSkipped(self) ==
  \E out \in {convertToOpenAPI(apiData[self], usedOperationIds[self])} :
      /\ usedOperationIds' = [usedOperationIds EXCEPT ![self] = out.used]
      /\ lastCall' = [lastCall EXCEPT ![self] =
                        Call("convertToOpenAPI", <<>>, NoEndpoint, out.error, <<>>,
                             out.doc, out.built)]
      /\ apiData' = [apiData EXCEPT ![self] =
                       IF out.error # "" THEN @
                       ELSE [@ EXCEPT !.api.items =
                               SelectSeq(@, LAMBDA endpoint : truthy(endpoint.url))]]
      /\ UNCHANGED scriptVars

ConvertToOpenAPI(self) ==
  \E out \in {convertToOpenAPI(apiData[self], usedOperationIds[self])} :
      /\ usedOperationIds' = [usedOperationIds EXCEPT ![self] = out.used]
      /\ lastCall' = [lastCall EXCEPT ![self] =
                        Call("convertToOpenAPI", <<>>, NoEndpoint, out.error, <<>>,
                             out.doc, out.built)]
      /\ UNCHANGED apiData
      /\ UNCHANGED scriptVars

EnsureUniqueOperationId(self, baseId) ==
  /\ Cardinality(usedOperationIds[self]) < MaxLedger
  /\ \E out \in {ensureUniqueOperationId(usedOperationIds[self], baseId)} :
         /\ usedOperationIds' = [usedOperationIds EXCEPT ![self] = out.used]
         /\ lastCall' = [lastCall EXCEPT ![self] =
                           Call("ensureUniqueOperationId", baseId, NoEndpoint, "", out.id, NoDocument, <<>>)]
  /\ UNCHANGED apiData
  /\ UNCHANGED scriptVars

\* ensureUniqueOperationId taken one usedOperationIds.has() at a time; calls
\* lists the has() of the call that runs or ran last. The first has() is on
\* baseId: unused, it is registered and returned; used, the while loop is
\* entered with counter 2
EnsureUniqueOperationIdBegin(self, baseId) ==
  /\ pc[self] = "idle"
  /\ Cardinality(usedOperationIds[self]) < MaxLedger
  /\ calls' = <<Event("has", baseId)>>
  /\ IF baseId \notin usedOperationIds[self]
       THEN /\ usedOperationIds' = [usedOperationIds EXCEPT ![self] = @ \cup {baseId}]
            /\ lastCall' = [lastCall EXCEPT ![self] =
                              Call("ensureUniqueOperationId", baseId, NoEndpoint, "", baseId,
                                   NoDocument, <<>>)]
            /\ UNCHANGED pc
       ELSE /\ pc' = [pc EXCEPT ![self] = "while"]
            /\ lastCall' = [lastCall EXCEPT ![self] =
                              Call("ensureUniqueOperationId:while", baseId, NoEndpoint, "",
                                   baseId \o numberToString(2), NoDocument, <<>>)]
            /\ UNCHANGED usedOperationIds
  /\ UNCHANGED <<apiData, config>>

\* The while loop that tests every uniqueId twice
EnsureUniqueOperationIdWhileTestingTwice(self) ==
  /\ pc[self] = "while"
  /\ LET uniqueId == lastCall[self].id
         counter == Len(calls) \div 2 + 2
     IN  /\ calls' = calls \o <<Event("has", uniqueId), Event("has", uniqueId)>>
         /\ IF uniqueId \in usedOperationIds[self]
              THEN /\ lastCall' = [lastCall EXCEPT ![self].id =
                                     lastCall[self].baseId \o numberToString(counter + 1)]
                   /\ UNCHANGED <<usedOperationIds, pc>>
              ELSE /\ usedOperationIds' = [usedOperationIds EXCEPT ![self] = @ \cup {uniqueId}]
                   /\ lastCall' = [lastCall EXCEPT ![self] =
                                     Call("ensureUniqueOperationId", lastCall[self].baseId,
                                          NoEndpoint, "", uniqueId, NoDocument, <<>>)]
                   /\ pc' = [pc EXCEPT ![self] = "idle"]
  /\ UNCHANGED <<apiData, config>>

\* One test of the while loop: has(uniqueId) true, counter goes up and the next
\* uniqueId is formed; false, uniqueId is registered and returned. After k
\* has() calls the counter is k + 1
EnsureUniqueOperationIdWhile(self) ==
  /\ pc[self] = "while"
  /\ LET uniqueId == lastCall[self].id
         counter == Len(calls) + 1
     IN  /\ calls' = Append(calls, Event("has", uniqueId))
         /\ IF uniqueId \in usedOperationIds[self]
              THEN /\ lastCall' = [lastCall EXCEPT ![self].id =
                                     lastCall[self].baseId \o numberToString(counter + 1)]
                   /\ UNCHANGED <<usedOperationIds, pc>>
              ELSE /\ usedOperationIds' = [usedOperationIds EXCEPT ![self] = @ \cup {uniqueId}]
                   /\ lastCall' = [lastCall EXCEPT ![self] =
                                     Call("ensureUniqueOperationId", lastCall[self].baseId,
                                          NoEndpoint, "", uniqueId, NoDocument, <<>>)]
                   /\ pc' = [pc EXCEPT ![self] = "idle"]
  /\ UNCHANGED <<apiData, config>>

GenerateOperationId(self, endpoint) ==
  /\ lastCall' = [lastCall EXCEPT ![self] =
                    Call("generateOperationId", <<>>, endpoint, "",
                         generateOperationId(endpoint), NoDocument, <<>>)]
  /\ UNCHANGED <<apiData, usedOperationIds>>
  /\ UNCHANGED scriptVars

\* parseParameterType called directly, as the unit tests do
ParseParameterType(self, type) ==
  /\ lastCall' = [lastCall EXCEPT ![self] =
                    [Call("parseParameterType", <<>>, NoEndpoint, "", <<>>, NoDocument, <<>>)
                       EXCEPT !.token = type, !.schema = parseParameterType(type)]]
  /\ UNCHANGED <<apiData, usedOperationIds>>
  /\ UNCHANGED scriptVars

\* A step failed (a promise rejected, or convertToOpenAPI threw); the catch
\* block of run() and of convertOnly() logs the error and calls process.exit(1)
CaughtError(step) == <<Event("error", step), Event("process.exit", "1")>>

\* A script starts with new Config().getConfig() on the command line and the
\* environment it was launched with; without an API URL getConfig logs the
\* error and calls process.exit(1)
GetConfig(self) ==
  /\ pc[self] = "start"
  /\ \E resolved \in {getConfig(programOpts(config.argv, config.env), config.env)} :
       /\ config' = resolved
       /\ IF ~truthy(resolved.apiDataUrl)
            THEN /\ pc' = [pc EXCEPT ![self] = "exited"]
                 /\ calls' = calls \o <<Event("error", "API URL is required"),
                                        Event("process.exit", "1")>>
            ELSE /\ pc' = [pc EXCEPT ![self] = "idle"]
                 /\ UNCHANGED calls
  /\ UNCHANGED <<apiData, usedOperationIds, lastCall>>

\* run(): executeExtractionPipeline starts with fetchAPIData, which awaits
\* axios.get
RunStart(self) ==
  /\ pc[self] = "idle"
  /\ pc' = [pc EXCEPT ![self] = "run:fetch"]
  /\ calls' = Append(calls, Event("axios.get", "apiDataUrl"))
  /\ UNCHANGED <<apiData, usedOperationIds, lastCall, config>>

\* The response is there: fetchAPIData parses it and assigns apiData, then
\* saveRawData calls saveAsJSON, which awaits fs.mkdir
RunFetched(self, response) ==
  /\ pc[self] = "run:fetch"
  /\ IF response.failure # ""
       THEN /\ pc' = [pc EXCEPT ![self] = "exited"]
            /\ calls' = calls \o CaughtError("fetchAPIData")
            /\ lastCall' = [lastCall EXCEPT ![self] =
                              Call("fetchAPIData", <<>>, NoEndpoint, response.failure,
                                   <<>>, NoDocument, <<>>)]
            /\ UNCHANGED apiData
       ELSE /\ apiData' = [apiData EXCEPT ![self] = response.data]
            /\ pc' = [pc EXCEPT ![self] = "run:mkdirRaw"]
            /\ calls' = Append(calls, Event("fs.mkdir", "outputDir"))
            /\ lastCall' = [lastCall EXCEPT ![self] =
                              Call("fetchAPIData", <<>>, NoEndpoint, "", <<>>, NoDocument, <<>>)]
  /\ UNCHANGED <<usedOperationIds, config>>

\* The file saveAsJSON writes at each position of a script
fileAt ==
  [position \in {"run:mkdirRaw", "run:mkdirOpenAPI", "only:mkdir"} |->
     IF position = "run:mkdirRaw" THEN "nitrado-api.json" ELSE "nitrado-openapi.json"]

writingAfter ==
  [position \in {"run:mkdirRaw", "run:mkdirOpenAPI", "only:mkdir"} |->
     CASE position = "run:mkdirRaw" -> "run:writeRaw"
       [] position = "run:mkdirOpenAPI" -> "run:writeOpenAPI"
       [] position = "only:mkdir" -> "only:write"]

\* saveAsJSON after fs.mkdir settled: it awaits fs.writeFile, or rethrows
SaveAsJSONMkdirDone(self, ok) ==
  /\ pc[self] \in DOMAIN fileAt
  /\ IF ok
       THEN /\ pc' = [pc EXCEPT ![self] = writingAfter[pc[self]]]
            /\ calls' = Append(calls, Event("fs.writeFile", fileAt[pc[self]]))
       ELSE /\ pc' = [pc EXCEPT ![self] = "exited"]
            /\ calls' = calls \o CaughtError("saveAsJSON")
  /\ UNCHANGED <<apiData, usedOperationIds, lastCall, config>>

\* run() that goes on converting although the raw data was not saved
RunRawWrittenIgnoringFailure(self, ok) ==
  /\ pc[self] = "run:writeRaw"
  /\ \E out \in {convertToOpenAPI(apiData[self], usedOperationIds[self])} :
       LET settled == IF ok THEN calls ELSE Append(calls, Event("error", "saveAsJSON"))
       IN  /\ usedOperationIds' = [usedOperationIds EXCEPT ![self] = out.used]
           /\ lastCall' = [lastCall EXCEPT ![self] =
                             Call("convertToOpenAPI", <<>>, NoEndpoint, out.error, <<>>,
                                  out.doc, out.built)]
           /\ IF out.error # ""
                THEN /\ pc' = [pc EXCEPT ![self] = "exited"]
                     /\ calls' = Append(settled, Event("convertToOpenAPI", ""))
                                   \o CaughtError("convertToOpenAPI")
                ELSE /\ pc' = [pc EXCEPT ![self] = "run:mkdirOpenAPI"]
                     /\ calls' = settled \o <<Event("convertToOpenAPI", ""),
                                            Event("fs.mkdir", "outputDir")>>
  /\ UNCHANGED <<apiData, config>>

\* run() after the fs.writeFile of the raw data settled: convertAndSaveOpenAPI
\* converts and calls saveAsJSON, which awaits fs.mkdir
RunRawWritten(self, ok) ==
  /\ pc[self] = "run:writeRaw"
  /\ IF ~ok
       THEN /\ pc' = [pc EXCEPT ![self] = "exited"]
            /\ calls' = calls \o CaughtError("saveAsJSON")
            /\ UNCHANGED <<usedOperationIds, lastCall>>
       ELSE \E out \in {convertToOpenAPI(apiData[self], usedOperationIds[self])} :
                /\ usedOperationIds' = [usedOperationIds EXCEPT ![self] = out.used]
                /\ lastCall' = [lastCall EXCEPT ![self] =
                                  Call("convertToOpenAPI", <<>>, NoEndpoint, out.error, <<>>,
                                       out.doc, out.built)]
                /\ IF out.error # ""
                     THEN /\ pc' = [pc EXCEPT ![self] = "exited"]
                          /\ calls' = Append(calls, Event("convertToOpenAPI", ""))
                                        \o CaughtError("convertToOpenAPI")
                     ELSE /\ pc' = [pc EXCEPT ![self] = "run:mkdirOpenAPI"]
                          /\ calls' = calls \o <<Event("convertToOpenAPI", ""),
                                                 Event("fs.mkdir", "outputDir")>>
  /\ UNCHANGED <<apiData, config>>

\* run() after the fs.writeFile of the OpenAPI document settled: logSummary
\* converts once more for the path count
RunOpenAPIWritten(self, ok) ==
  /\ pc[self] = "run:writeOpenAPI"
  /\ IF ~ok
       THEN /\ pc' = [pc EXCEPT ![self] = "exited"]
            /\ calls' = calls \o CaughtError("saveAsJSON")
            /\ UNCHANGED <<usedOperationIds, lastCall>>
       ELSE \E out \in {convertToOpenAPI(apiData[self], usedOperationIds[self])} :
                /\ usedOperationIds' = [usedOperationIds EXCEPT ![self] = out.used]
                /\ lastCall' = [lastCall EXCEPT ![self] =
                                  Call("convertToOpenAPI", <<>>, NoEndpoint, out.error, <<>>,
                                       out.doc, out.built)]
                /\ IF out.error # ""
                     THEN /\ pc' = [pc EXCEPT ![self] = "exited"]
                          /\ calls' = Append(calls, Event("convertToOpenAPI", "logSummary"))
                                        \o CaughtError("logSummary")
                     ELSE /\ pc' = [pc EXCEPT ![self] = "done"]
                          /\ calls' = Append(calls, Event("convertToOpenAPI", "logSummary"))
  /\ UNCHANGED <<apiData, config>>

\* convertOnly(): the script awaits fs.readFile of the saved raw data
ConvertOnlyStart(self) ==
  /\ pc[self] = "idle"
  /\ pc' = [pc EXCEPT ![self] = "only:read"]
  /\ calls' = Append(calls, Event("fs.readFile", "nitrado-api.json"))
  /\ UNCHANGED <<apiData, usedOperationIds, lastCall, config>>

\* convertOnly() after fs.readFile settled: the content is parsed and assigned
\* to apiData, then converted; in dry-run mode the script returns, else it
\* calls saveAsJSON, which awaits fs.mkdir
ConvertOnlyRead(self, content) ==
  /\ pc[self] = "only:read"
  /\ IF content.failure # ""
       THEN /\ pc' = [pc EXCEPT ![self] = "exited"]
            /\ calls' = calls \o CaughtError("readFile")
            /\ UNCHANGED <<apiData, usedOperationIds, lastCall>>
       ELSE \E out \in {convertToOpenAPI(content.data, usedOperationIds[self])} :
                /\ apiData' = [apiData EXCEPT ![self] = content.data]
                /\ usedOperationIds' = [usedOperationIds EXCEPT ![self] = out.used]
                /\ lastCall' = [lastCall EXCEPT ![self] =
                                  Call("convertToOpenAPI", <<>>, NoEndpoint, out.error, <<>>,
                                       out.doc, out.built)]
                /\ IF out.error # ""
                     THEN /\ pc' = [pc EXCEPT ![self] = "exited"]
                          /\ calls' = Append(calls, Event("convertToOpenAPI", ""))
                                        \o CaughtError("convertToOpenAPI")
                     ELSE IF config.dryRun
                       THEN /\ pc' = [pc EXCEPT ![self] = "done"]
                            /\ calls' = Append(calls, Event("convertToOpenAPI", ""))
                       ELSE /\ pc' = [pc EXCEPT ![self] = "only:mkdir"]
                            /\ calls' = calls \o <<Event("convertToOpenAPI", ""),
                                                   Event("fs.mkdir", "outputDir")>>
  /\ UNCHANGED config

\* convertOnly() after the fs.writeFile of the OpenAPI document settled
ConvertOnlyWritten(self, ok) ==
  /\ pc[self] = "only:write"
  /\ IF ok
       THEN /\ pc' = [pc EXCEPT ![self] = "done"]
            /\ UNCHANGED calls
       ELSE /\ pc' = [pc EXCEPT ![self] = "exited"]
            /\ calls' = calls \o CaughtError("saveAsJSON")
  /\ UNCHANGED <<apiData, usedOperationIds, lastCall, config>>

(***************************************************************************)
(* Conversions of one instance, for every endpoint list up to MaxRecords   *)
(* records: the instance holds the list, as after converter.apiData = ...  *)
(***************************************************************************)
InitConvert ==
  /\ apiData \in {[self \in Instances |-> IF self = "A" THEN d ELSE NullData] : d \in LoadedData}
  /\ usedOperationIds = [self \in Instances |-> {}]
  /\ lastCall = [self \in Instances |-> Constructed]
  /\ NoScript

NextConvert ==
  \/ ConvertToOpenAPI("A")
  \/ \E baseId \in BaseIds : EnsureUniqueOperationId("A", baseId)

SpecConvert == InitConvert /\ [][NextConvert]_vars

(***************************************************************************)
(* Two converter instances, each fetching, converting and reserving        *)
(* identifiers in any order.                                               *)
(***************************************************************************)

\* Outcomes of axios.get and JSON.parse: the error message of a failed fetch,
\* or the parsed payload
Responses ==
  { [failure |-> "Request failed with status code 404", data |-> NullData],
    [failure |-> "Failed to parse API data: Unexpected token", data |-> NullData],
    [failure |-> "", data |-> ApiDocument("undefined", <<>>)],
    [failure |-> "",
     data |-> ApiDocument("array", <<Endpoint(Details, UrlParam, GetMethod, GameGroup),
                                     Endpoint(Details, UrlLiteral, GetMethod, GameGroup)>>)],
    [failure |-> "",
     data |-> ApiDocument("array", <<Endpoint(Details, undefined, GetMethod, GameGroup),
                                     Endpoint(undefined, UrlOther, undefined, undefined)>>)] }

DirectBaseIds == { <<"X">>, <<"G","a","m","e","A","B","C","D","e","t","a","i","l","s">> }

Next ==
  \E self \in Instances :
    \/ \E response \in Responses : FetchAPIData(self, response)
    \/ ConvertToOpenAPI(self)
    \/ \E baseId \in DirectBaseIds : EnsureUniqueOperationId(self, baseId)

Spec == Init /\ [][Next]_vars

(***************************************************************************)
(* Direct calls of generateOperationId, over every combination of the      *)
(* names, URLs, methods and groups below.                                  *)
(***************************************************************************)
GenNames ==
  { undefined,
    <<" "," ">>,
    <<"D","e","t","a","i","l","s">>,
    <<"m","y","-","l","i","s","t">>,
    <<"a","b">>,
    <<"-","-">>,
    <<"z","o","r","k">>,
    <<"T","e","s","t"," ","O","p","e","r","a","t","i","o","n">>,
    <<"U","s","e","r"," ","P","r","o","f","i","l","e">> }

GenUrls ==
  { undefined,
    <<"/">>,
    <<"/","a","/","b">>,
    <<"/","a","/",":","b","/","c">>,
    <<"/","x","/",":","s","_","i","d","/","y","_","z","/","w">>,
    <<"/","c","o","m","p","a","n","y","/","s","t","a","t","s">>,
    <<"/","s","e","r","v","i","c","e","s","/",":","s","e","r","v","i","c","e","_","i","d","/","g","a","m","e","s","e","r","v","e","r","s","/",":","i","d">> }

GenTypes ==
  { undefined,
    <<"g","e","t">>,
    <<"P","O","S","T">> }

GenGroups ==
  { undefined,
    <<"D","e","f","a","u","l","t">>,
    <<"g","_","m">>,
    <<"G","_","M">>,
    <<"G","a","m","e">> }

GenEndpoints ==
  {Endpoint(name, url, type, group) :
     name \in GenNames, url \in GenUrls, type \in GenTypes, group \in GenGroups}

NextGenerate == \E endpoint \in GenEndpoints : GenerateOperationId("A", endpoint)

SpecGenerate == Init /\ [][NextGenerate]_vars

(***************************************************************************)
(* Conversions of one record, for every URL up to MaxUrlLen characters     *)
(* over UrlAlphabet and a few longer ones.                                 *)
(***************************************************************************)

\* Largest length of the generated URLs
MaxUrlLen == 3

UrlAlphabet == {"/", ":", "a", "_"}

NormUrls ==
  SeqsUpTo(UrlAlphabet, MaxUrlLen)
    \cup { <<"/","s","e","r","v","i","c","e","s","/",":","s","e","r","v","i","c","e","_","i","d","/","g","a","m","e","s","e","r","v","e","r","s","/",":","i","d">>,
           <<"/","a","/",":","B","9","/","c">>,
           <<"/","x",":","y","-","z","/",":">>,
           <<"/","c","o","m","p","a","n","y","/","s","t","a","t","s">> }

InitNormalize ==
  /\ apiData \in {[self \in Instances |->
                     IF self = "A"
                       THEN ApiDocument("array", <<Endpoint(undefined, url, undefined, undefined)>>)
                       ELSE NullData] : url \in NormUrls}
  /\ usedOperationIds = [self \in Instances |-> {}]
  /\ lastCall = [self \in Instances |-> Constructed]
  /\ NoScript

NextNormalize == ConvertToOpenAPI("A")

SpecNormalize == InitNormalize /\ [][NextNormalize]_vars

(***************************************************************************)
(* Direct calls of parseParameterType, over tokens made of two pieces.     *)
(***************************************************************************)
TokenPieces ==
  Range(typeMapKeys)
    \cup { <<>>, <<"x">>, <<"I","n","t","e","g","e","r">>, <<"B","O","O","L">>, <<" ","o","f"," ">> }

Tokens == {undefined} \cup {a \o b : a \in TokenPieces, b \in TokenPieces}

NextParse == \E type \in Tokens : ParseParameterType("A", type)

SpecParse == Init /\ [][NextParse]_vars

(***************************************************************************)
(* Conversions of one record, for every combination of the URLs, methods,  *)
(* public marks and field groups below.                                    *)
(***************************************************************************)
FieldLimit == Field(<<"l","i","m","i","t">>, <<"I","n","t","e","g","e","r">>, TRUE)

FieldName == Field(<<"n","a","m","e">>, undefined, FALSE)

ListOf(value) == LabelValue("array", value)

\* endpoint.parameter
ParameterGroups ==
  { NoGroup,
    FieldGroup(NoFields),
    FieldGroup(FieldsObject("Parameter", MissingLabel, "Query", MissingLabel)),
    FieldGroup(FieldsObject("Parameter", ListOf(<<FieldLimit, FieldName>>), "Query", MissingLabel)),
    FieldGroup(FieldsObject("Parameter", ListOf(<<FieldName, FieldLimit>>), "Query", MissingLabel)),
    FieldGroup(FieldsObject("Parameter", MissingLabel, "Query", ListOf(<<FieldLimit>>))),
    FieldGroup(FieldsObject("Parameter", ListOf(<<>>), "Query", ListOf(<<FieldName>>))),
    FieldGroup(FieldsObject("Parameter", ListOf(<<FieldLimit>>), "Query", ListOf(<<FieldName>>))),
    FieldGroup(FieldsObject("Body", ListOf(<<FieldLimit, FieldName>>), "Request", MissingLabel)),
    FieldGroup(FieldsObject("Body", ListOf(<<FieldLimit>>), "Request", MissingLabel)),
    FieldGroup(FieldsObject("Body", MissingLabel, "Request", ListOf(<<FieldName>>))),
    FieldGroup(FieldsObject("Body", ListOf(<<>>), "Request", ListOf(<<FieldName>>))),
    FieldGroup(FieldsObject("Parameter", ListOf(<<FieldName>>), "Body", ListOf(<<FieldLimit>>))),
    FieldGroup(FieldsObject("Parameter", LabelValue("string", <<>>), "Query", MissingLabel)),
    FieldGroup(FieldsObject("Body", LabelValue("object", <<>>), "Request", MissingLabel)) }

\* endpoint.header
HeaderGroups ==
  { NoGroup,
    FieldGroup(FieldsObject("Header", ListOf(<<Field(<<"X","-","T","o","k","e","n">>, <<"S","t","r","i","n","g">>, TRUE), FieldName>>),
                            "Header", MissingLabel)),
    FieldGroup(FieldsObject("Header", LabelValue("object", <<>>), "Header", MissingLabel)) }

\* endpoint.success
SuccessGroups ==
  { NoGroup,
    FieldGroup(NoFields),
    FieldGroup(FieldsObject("Success 200", ListOf(<<FieldLimit>>), "Success", MissingLabel)),
    FieldGroup(FieldsObject("Success 200", LabelValue("string", <<>>), "Success", MissingLabel)) }

\* endpoint.error
ErrorGroups ==
  { NoGroup,
    FieldGroup(NoFields),
    FieldGroup(FieldsObject("Error 4xx", MissingLabel, "Error", MissingLabel)),
    FieldGroup(FieldsObject("Error 4xx", ListOf(<<FieldName>>), "Error", MissingLabel)),
    FieldGroup(FieldsObject("Error 4xx", MissingLabel, "Error", ListOf(<<FieldName>>))),
    FieldGroup(FieldsObject("Error 4xx", ListOf(<<>>), "Error", ListOf(<<FieldName>>))),
    FieldGroup(FieldsObject("Error 4xx", LabelValue("string", <<>>), "Error", MissingLabel)),
    FieldGroup(FieldsObject("Error 4xx", LabelValue("object", <<>>), "Error", MissingLabel)) }

OperationUrls ==
  { <<"/","s">>, <<"/","s","/",":","i","d">>, <<"/","s","/",":","a","_","b","/","t","/",":","c">> }

OperationTypes ==
  { undefined, <<"g","e","t">>, <<"P","O","S","T">>, <<"P","u","t">>, <<"p","a","t","c","h">> }

OperationEndpoints ==
  { [Endpoint(Details, url, type, GameGroup)
       EXCEPT !.public = public, !.parameter = parameter, !.header = header,
              !.success = success, !.error = error] :
      url \in OperationUrls, type \in OperationTypes, public \in BOOLEAN,
      parameter \in ParameterGroups, header \in HeaderGroups,
      success \in SuccessGroups, error \in ErrorGroups }

InitOperation ==
  /\ apiData \in {[self \in Instances |->
                     IF self = "A" THEN ApiDocument("array", <<endpoint>>) ELSE NullData] :
                    endpoint \in OperationEndpoints}
  /\ usedOperationIds = [self \in Instances |-> {}]
  /\ lastCall = [self \in Instances |-> Constructed]
  /\ NoScript

NextOperation == ConvertToOpenAPI("A")

SpecOperation == InitOperation /\ [][NextOperation]_vars

(***************************************************************************)
(* One run of a script on a new converter: `node converter.js` (run) or     *)
(* the convert-only script, with or without dry-run mode, for every        *)
(* outcome of the fetch, of the read and of the file system calls.         *)
(***************************************************************************)

\* The settings of the command line and of the environment
Configs ==
  {getConfig(programOpts([NoArguments EXCEPT !.dryRun = flag],
                         [NoEnv EXCEPT !.NITRADO_DRY_RUN = variable]),
             [NoEnv EXCEPT !.NITRADO_DRY_RUN = variable]) :
     flag \in BOOLEAN, variable \in {"", "true", "false"}}

\* Outcomes of axios.get and JSON.parse, and of fs.readFile and JSON.parse
ScriptResponses ==
  { [failure |-> "Request failed with status code 404", data |-> NullData],
    [failure |-> "Failed to parse API data: Unexpected token", data |-> NullData] }
    \cup {[failure |-> "", data |-> data] : data \in LoadedData}

InitRun ==
  /\ apiData = [self \in Instances |-> NullData]
  /\ usedOperationIds = [self \in Instances |-> {}]
  /\ lastCall = [self \in Instances |-> Constructed]
  /\ pc = [self \in Instances |-> "idle"]
  /\ calls = <<>>
  /\ config \in Configs

NextRun ==
  \/ RunStart("A")
  \/ \E response \in ScriptResponses : RunFetched("A", response)
  \/ \E ok \in BOOLEAN : SaveAsJSONMkdirDone("A", ok)
  \/ \E ok \in BOOLEAN : RunRawWritten("A", ok)
  \/ \E ok \in BOOLEAN : RunOpenAPIWritten("A", ok)
  \/ ConvertOnlyStart("A")
  \/ \E content \in ScriptResponses : ConvertOnlyRead("A", content)
  \/ \E ok \in BOOLEAN : ConvertOnlyWritten("A", ok)

SpecRun == InitRun /\ [][NextRun]_vars

(***************************************************************************)
(* The start of a script: getConfig on every command line and environment  *)
(* below. The API URL takes every combination of its option and its        *)
(* variable; next to it one more setting at a time does.                   *)
(***************************************************************************)

\* An option: not given, given as '', given with an argument
ArgumentValues == {undefined, <<>>, <<"c","l","i">>}

\* A variable: not set, set to '', set to a value
VariableValues == {undefined, <<>>, <<"e","n","v">>}

NoVariables == [NoEnv EXCEPT !.NITRADO_API_URL = undefined]

CommandLines ==
  {[NoArguments EXCEPT !.apiUrl = url] : url \in ArgumentValues}

Environments ==
  {[NoVariables EXCEPT !.NITRADO_API_URL = url] : url \in VariableValues}

Launches ==
  UNION {
    {[argv |-> [argv EXCEPT ![optionOf[setting]] = argument],
      env |-> [env EXCEPT ![variableOf[setting]] = variable]] :
        setting \in DOMAIN optionOf \ {"apiDataUrl"},
        argument \in ArgumentValues, variable \in VariableValues}
    \cup
    {[argv |-> [argv EXCEPT !.verbose = verbose, !.dryRun = dryRun],
      env |-> [env EXCEPT !.NITRADO_VERBOSE = variable1, !.NITRADO_DRY_RUN = variable2]] :
        verbose \in BOOLEAN, dryRun \in BOOLEAN,
        variable1 \in {"", "true", "false"}, variable2 \in {"", "true", "false"}}
    : argv \in CommandLines, env \in Environments }

InitConfig ==
  /\ apiData = [self \in Instances |-> NullData]
  /\ usedOperationIds = [self \in Instances |-> {}]
  /\ lastCall = [self \in Instances |-> Constructed]
  /\ pc = [self \in Instances |-> IF self = "A" THEN "start" ELSE "idle"]
  /\ calls = <<>>
  /\ config \in Launches

NextConfig == GetConfig("A")

SpecConfig == InitConfig /\ [][NextConfig]_vars

(***************************************************************************)
(* Direct calls of ensureUniqueOperationId, one after the other, with the  *)
(* while loop taken test by test. A call that has started goes on: the     *)
(* loop is synchronous code.                                               *)
(***************************************************************************)

\* Candidates, some of them the suffixed form of another
ProbeBaseIds == { <<"X">>, <<"X","2">>, <<"X","3">>, <<"X","2","2">>, <<"Y">>, <<"Y","2">> }

NextProbe ==
  \/ \E baseId \in ProbeBaseIds : EnsureUniqueOperationIdBegin("A", baseId)
  \/ EnsureUniqueOperationIdWhile("A")

SpecProbe == Init /\ [][NextProbe]_vars /\ WF_vars(EnsureUniqueOperationIdWhile("A"))

(***************************************************************************)
(* Conversions of lists of records that differ in group and URL only.      *)
(***************************************************************************)

GroupNames == { undefined, GameGroup, <<"g","_","m">>, <<"c","o","n","s","t","r","u","c","t","o","r">> }

GroupUrls == { undefined, UrlLiteral, UrlOther }

GroupPool ==
  {Endpoint(<<"Z","o","r","k">>, url, GetMethod, group) : url \in GroupUrls, group \in GroupNames}

InitGroup ==
  /\ apiData \in {[self \in Instances |->
                     IF self = "A" THEN ApiDocument("array", api) ELSE NullData] :
                    api \in SeqsUpTo(GroupPool, MaxRecords)}
  /\ usedOperationIds = [self \in Instances |-> {}]
  /\ lastCall = [self \in Instances |-> Constructed]
  /\ NoScript

NextGroup == ConvertToOpenAPI("A")

SpecGroup == InitGroup /\ [][NextGroup]_vars

(***************************************************************************)
(* Conversions of one record, for every combination of the names, URLs,    *)
(* methods and groups of the identifier synthesis.                         *)
(***************************************************************************)
InitIdentify ==
  /\ apiData \in {[self \in Instances |->
                     IF self = "A" THEN ApiDocument("array", <<endpoint>>) ELSE NullData] :
                    endpoint \in GenEndpoints}
  /\ usedOperationIds = [self \in Instances |-> {}]
  /\ lastCall = [self \in Instances |-> Constructed]
  /\ NoScript

NextIdentify == ConvertToOpenAPI("A")

SpecIdentify == InitIdentify /\ [][NextIdentify]_vars

(***************************************************************************)
(* Properties.                                                             *)
(***************************************************************************)

\* The call last made on an instance was a convertToOpenAPI that returned
Converted(self) ==
  lastCall[self].op = "convertToOpenAPI" /\ lastCall[self].error = ""

\* The (path, method) slots of a document
OperationKeys(doc) ==
  UNION {{<<path, method>> : method \in DOMAIN doc.paths[path]} : path \in DOMAIN doc.paths}

OperationIdAt(doc, key) == doc.paths[key[1]][key[2]].operationId

\* The positions of the records that have a URL
RecordsWithUrl(items) == {k \in DOMAIN items : truthy(items[k].url)}

EndsWith(s, suffix) ==
  Len(s) >= Len(suffix) /\ SubSeq(s, Len(s) - Len(suffix) + 1, Len(s)) = suffix

\* C1: after convertToOpenAPI() every operation of the returned document has an
\* operationId different from that of every other operation of the document.
C1_UniqueOperationIds ==
  \A self \in Instances :
    Converted(self) =>
      LET doc == lastCall[self].doc
      IN  \A k1, k2 \in OperationKeys(doc) :
            k1 # k2 => OperationIdAt(doc, k1) # OperationIdAt(doc, k2)

\* A document holding two operations whose synthesized identifiers collided
C1_Witness ==
  /\ Converted("A")
  /\ \E k1, k2 \in OperationKeys(lastCall["A"].doc) :
       OperationIdAt(lastCall["A"].doc, k2) = OperationIdAt(lastCall["A"].doc, k1) \o <<"2">>

\* What a call ensureUniqueOperationId(baseId) on instance self must do in a step
ReserveContract(self, baseId) ==
  LET ledger == usedOperationIds[self]
      returned == lastCall'[self].id
  IN  /\ baseId \notin ledger => returned = baseId
      /\ baseId \in ledger =>
           \E n \in 2..(Cardinality(ledger) + 2) :
             /\ returned = baseId \o numberToString(n)
             /\ returned \notin ledger
             /\ \A m \in 2..(n - 1) : (baseId \o numberToString(m)) \in ledger
      /\ usedOperationIds'[self] = ledger \cup {returned}

\* C2: ensureUniqueOperationId(candidate) returns the candidate when the ledger
\* does not hold it, else the candidate followed by the smallest n >= 2 such that
\* candidate+n is not in the ledger; exactly the returned value is added to the
\* ledger, nothing else is added or removed.
C2_ReserveReturnsSmallestFreeSuffix ==
  [][\A self \in Instances : \A baseId \in BaseIds :
       EnsureUniqueOperationId(self, baseId) => ReserveContract(self, baseId)]_vars

\* X reserved while the ledger holds X and X2: the probe passes 2 and returns X3
C2_Witness ==
  /\ lastCall["A"].op = "ensureUniqueOperationId"
  /\ lastCall["A"].baseId = <<"X">>
  /\ lastCall["A"].id = <<"X", "3">>
  /\ usedOperationIds["A"] = {<<"X">>, <<"X", "2">>, <<"X", "3">>}

\* C3: convertToOpenAPI() called with no data loaded, or with a loaded document
\* that has no `api` endpoint list, fails with the 'No API data available' error
\* and returns no document; a document is produced only when an endpoint list is
\* loaded.
C3_NoDataErrorWithoutEndpointList ==
  \A self \in Instances :
    lastCall[self].op = "convertToOpenAPI" =>
      /\ (apiData[self].isNull \/ apiData[self].api.kind # "array") =>
           lastCall[self].error = NoDataError /\ lastCall[self].doc = NoDocument
      /\ lastCall[self].doc # NoDocument => apiData[self].api.kind = "array"

\* C4: after a successful convertToOpenAPI() the ledger holds exactly the
\* identifiers reserved during that call: every operationId of the document is
\* in it, nothing from before the call is left, and its size is the number of
\* input records that have a URL.
C4_LedgerHoldsThisRunOnly ==
  \A self \in Instances :
    Converted(self) =>
      LET call == lastCall[self]
          items == apiData[self].api.items
      IN  /\ usedOperationIds[self] =
               {call.built[k].operationId :
                  k \in {j \in DOMAIN call.built : call.built[j] # NoOperation}}
          /\ \A key \in OperationKeys(call.doc) :
               OperationIdAt(call.doc, key) \in usedOperationIds[self]
          /\ Cardinality(usedOperationIds[self]) = Cardinality(RecordsWithUrl(items))

\* Three records, one of them without URL: two identifiers in the ledger
C4_Witness ==
  /\ Converted("A")
  /\ Len(apiData["A"].api.items) = 3
  /\ Cardinality(RecordsWithUrl(apiData["A"].api.items)) = 2
  /\ Cardinality(usedOperationIds["A"]) = 2

\* C5: two instances built with the same configuration and holding the same
\* endpoint list return identical documents from convertToOpenAPI(), whatever
\* was done with them before (two fresh instances in particular).
C5_SameInputSameDocument ==
  \A a, b \in Instances :
    (Converted(a) /\ Converted(b) /\ apiData[a] = apiData[b]) =>
      lastCall[a].doc = lastCall[b].doc

\* Both instances converted the same two-record list
C5_Witness ==
  /\ Converted("A") /\ Converted("B")
  /\ apiData["A"] = apiData["B"]
  /\ Len(apiData["A"].api.items) = 2
  /\ Cardinality(OperationKeys(lastCall["A"].doc)) = 2
  /\ lastCall["A"].doc = lastCall["B"].doc

\* C6: a record without `url` is skipped: the conversion raises no error, the
\* record adds no path entry and no operation, and the records after it are
\* still converted.
C6_RecordWithoutUrlIsSkipped ==
  \A self \in Instances :
    (lastCall[self].op = "convertToOpenAPI" /\ apiData[self].api.kind = "array"
       /\ ~apiData[self].isNull) =>
      LET call == lastCall[self]
          items == apiData[self].api.items
      IN  /\ call.error = ""
          /\ Len(call.built) = Len(items)
          /\ \A k \in DOMAIN items :
               (call.built[k] = NoOperation) <=> ~truthy(items[k].url)
          /\ DOMAIN call.doc.paths =
               {normalizePath(items[k].url) : k \in RecordsWithUrl(items)}

\* A record without URL followed by a record that was converted
C6_Witness ==
  /\ Converted("A")
  /\ Len(apiData["A"].api.items) >= 2
  /\ ~truthy(apiData["A"].api.items[1].url)
  /\ lastCall["A"].built[1] = NoOperation
  /\ lastCall["A"].built[2] # NoOperation
  /\ Cardinality(DOMAIN lastCall["A"].doc.paths) = 1

\* The PascalCasing rule of the identifier synthesis: each `_x` becomes `X`,
\* then the first letter is uppercased
RECURSIVE UnderscoreToCamel(_)
UnderscoreToCamel(s) ==
  IF Len(s) < 2 THEN s
  ELSE IF s[1] = "_" /\ s[2] \in LowerCaseSet
    THEN <<UpperOf[s[2]]>> \o UnderscoreToCamel(SubSeq(s, 3, Len(s)))
  ELSE <<s[1]>> \o UnderscoreToCamel(Tail(s))

FirstLetterUp(s) ==
  IF s # <<>> /\ s[1] \in LowerCaseSet THEN <<UpperOf[s[1]]>> \o Tail(s) ELSE s

PascalCased(s) == FirstLetterUp(UnderscoreToCamel(s))

\* The PascalCased segments of a URL from position `from` on, in URL order; a
\* `:param` segment contributes its name without the marker
PascalCasedSegments(url, from) ==
  LET parts == extractPathParts(url)
  IN  join([k \in 1..(Len(parts) - from + 1) |->
              LET part == parts[k + from - 1]
              IN  PascalCased(IF part[1] = ":" THEN Tail(part) ELSE part)])

\* The method of a record, get when missing, first letter up and the rest down
PascalCasedMethod(endpoint) ==
  LET method == IF truthy(endpoint.type) THEN endpoint.type ELSE <<"g", "e", "t">>
  IN  <<CharToUpper(method[1])>> \o toLowerCase(Tail(method))

\* The name of a record is absent or blank
NameIsBlank(endpoint) == endpoint.name = undefined \/ trim(endpoint.name) = <<>>

\* The name of a record with all non-alphanumeric characters removed
CleanNameOf(endpoint) == SelectSeq(endpoint.name, IsAlnum)

\* Generic: contains an entry of the vocabulary, whatever the case, or is
\* shorter than 4 characters
IsGenericName(cleanName) ==
  \/ Len(cleanName) < 4
  \/ \E g \in DOMAIN genericNames :
       \E i \in 0..(Len(cleanName) - Len(genericNames[g])) :
         \A j \in 1..Len(genericNames[g]) :
           CharToLower(cleanName[i + j]) = CharToLower(genericNames[g][j])

\* The group prefix of a contextual identifier: the group without its
\* non-alphanumeric characters, empty when the group is absent or 'Default'
GroupPrefixOf(endpoint) ==
  IF endpoint.group = undefined \/ endpoint.group = <<>> \/ endpoint.group = DefaultGroup
    THEN <<>>
    ELSE SelectSeq(endpoint.group, IsAlnum)

UrlOf(endpoint) == IF truthy(endpoint.url) THEN endpoint.url ELSE <<>>

Generated(self) == lastCall[self].op = "generateOperationId"

\* C7: for a record whose name is absent or blank, generateOperationId returns
\* PascalCase(method) followed by the PascalCased form of every path segment in
\* URL order; a missing method counts as get.
C7_FallbackIdFromMethodAndPath ==
  \A self \in Instances :
    (Generated(self) /\ NameIsBlank(lastCall[self].endpoint)) =>
      lastCall[self].id =
        PascalCasedMethod(lastCall[self].endpoint)
          \o PascalCasedSegments(UrlOf(lastCall[self].endpoint), 1)

\* post /services/:service_id/gameservers/:id gives PostServicesServiceIdGameserversId
C7_Witness ==
  /\ Generated("A")
  /\ lastCall["A"].endpoint.name = undefined
  /\ lastCall["A"].endpoint.url = <<"/","s","e","r","v","i","c","e","s","/",":","s","e","r","v","i","c","e","_","i","d","/","g","a","m","e","s","e","r","v","e","r","s","/",":","i","d">>
  /\ lastCall["A"].endpoint.type = <<"P", "O", "S", "T">>
  /\ lastCall["A"].id = <<"P","o","s","t","S","e","r","v","i","c","e","s","S","e","r","v","i","c","e","I","d","G","a","m","e","s","e","r","v","e","r","s","I","d">>

\* The contextual identifier: group prefix + all PascalCased segments + cleanName,
\* the first letter of the whole uppercased
ContextualIdOf(endpoint) ==
  FirstLetterUp(GroupPrefixOf(endpoint)
                  \o PascalCasedSegments(UrlOf(endpoint), 1)
                  \o CleanNameOf(endpoint))

\* C8 as stated: for a record whose cleaned name is generic, generateOperationId
\* returns group prefix + PascalCased path segments + cleanName, first letter
\* capitalized.
C8_GenericNameGetsContextualId ==
  \A self \in Instances :
    (Generated(self) /\ lastCall[self].endpoint.name # undefined
       /\ IsGenericName(CleanNameOf(lastCall[self].endpoint))) =>
      lastCall[self].id = ContextualIdOf(lastCall[self].endpoint)

\* C8, amended: the same for a record whose name is not blank; a blank name,
\* whose cleaned name is empty and so shorter than 4 characters, gets the
\* identifier built from the method and the path instead.
C8_NonBlankGenericNameGetsContextualId ==
  \A self \in Instances :
    (Generated(self) /\ ~NameIsBlank(lastCall[self].endpoint)
       /\ IsGenericName(CleanNameOf(lastCall[self].endpoint))) =>
      lastCall[self].id = ContextualIdOf(lastCall[self].endpoint)

\* Details in group g_m at /a/:b/c gives GmABCDetails
C8_Witness ==
  /\ Generated("A")
  /\ lastCall["A"].endpoint.name = Details
  /\ lastCall["A"].endpoint.group = <<"g", "_", "m">>
  /\ lastCall["A"].endpoint.url = UrlParam
  /\ lastCall["A"].id = <<"G","m","A","B","C","D","e","t","a","i","l","s">>

\* C9: for a record whose cleaned name is not generic, generateOperationId
\* returns the PascalCased last two path segments followed by cleanName when the
\* URL has more than 2 segments, and cleanName unmodified otherwise (a missing
\* URL included); the group and the method never contribute.
C9_SpecificNameGetsLastTwoSegments ==
  \A self \in Instances :
    (Generated(self) /\ ~NameIsBlank(lastCall[self].endpoint)
       /\ ~IsGenericName(CleanNameOf(lastCall[self].endpoint))) =>
      LET endpoint == lastCall[self].endpoint
          depth == Len(extractPathParts(UrlOf(endpoint)))
      IN  /\ depth > 2 =>
                lastCall[self].id =
                  PascalCasedSegments(UrlOf(endpoint), depth - 1) \o CleanNameOf(endpoint)
          /\ depth <= 2 => lastCall[self].id = CleanNameOf(endpoint)
          /\ \A type \in GenTypes, group \in GenGroups :
               generateOperationId(Endpoint(endpoint.name, endpoint.url, type, group))
                 = lastCall[self].id

\* 'User Profile' at /x/:s_id/y_z/w gives YZWUserProfile
C9_Witness ==
  /\ Generated("A")
  /\ lastCall["A"].endpoint.name = <<"U","s","e","r"," ","P","r","o","f","i","l","e">>
  /\ lastCall["A"].endpoint.url = <<"/","x","/",":","s","_","i","d","/","y","_","z","/","w">>
  /\ lastCall["A"].id = <<"Y","Z","W","U","s","e","r","P","r","o","f","i","l","e">>

\* Positions j < k of two records both named Details, of the same group, with
\* different URLs of more than 2 segments each
DetailsPairs(items) ==
  {pair \in (DOMAIN items) \X (DOMAIN items) :
     /\ pair[1] < pair[2]
     /\ items[pair[1]].name = Details /\ items[pair[2]].name = Details
     /\ items[pair[1]].group = items[pair[2]].group
     /\ truthy(items[pair[1]].url) /\ truthy(items[pair[2]].url)
     /\ items[pair[1]].url # items[pair[2]].url
     /\ Len(extractPathParts(items[pair[1]].url)) > 2
     /\ Len(extractPathParts(items[pair[2]].url)) > 2}

\* C10 as stated: in one run, two records both named Details, of the same group,
\* with different URLs of more than 2 segments each, receive identifiers that
\* differ and that both end in Details.
C10_DetailsIdsDifferAndEndInDetails ==
  \A self \in Instances :
    Converted(self) =>
      \A pair \in DetailsPairs(apiData[self].api.items) :
        LET id1 == lastCall[self].built[pair[1]].operationId
            id2 == lastCall[self].built[pair[2]].operationId
        IN  id1 # id2 /\ EndsWith(id1, Details) /\ EndsWith(id2, Details)

\* The identifier record k received is its contextual identifier, which ends in
\* Details, followed by a number from 2 on exactly when an earlier record of
\* the run already received that contextual identifier
DetailsIdShape(items, built, k) ==
  LET contextual == ContextualIdOf(items[k])
      earlier == {built[j].operationId : j \in {i \in 1..(k - 1) : truthy(items[i].url)}}
  IN  /\ EndsWith(contextual, Details)
      /\ IF contextual \in earlier
           THEN \E n \in 2..(k + 1) : built[k].operationId = contextual \o numberToString(n)
           ELSE built[k].operationId = contextual

\* C10, amended: the two identifiers differ, and each is the record's contextual
\* identifier, ending in Details, followed by a numeric suffix exactly when that
\* identifier was already issued earlier in the run (as for /a/:b/c and /a/b/c,
\* whose segments PascalCase alike).
C10_DetailsIdsDifferAndEndInDetailsOrSuffix ==
  \A self \in Instances :
    Converted(self) =>
      LET items == apiData[self].api.items
      IN  \A pair \in DetailsPairs(items) :
            /\ lastCall[self].built[pair[1]].operationId
                 # lastCall[self].built[pair[2]].operationId
            /\ DetailsIdShape(items, lastCall[self].built, pair[1])
            /\ DetailsIdShape(items, lastCall[self].built, pair[2])

\* /a/:b/c and /a/b/d, both Details of group Game, in one run
C10_Witness ==
  /\ Converted("A")
  /\ \E pair \in DetailsPairs(apiData["A"].api.items) :
       /\ lastCall["A"].built[pair[1]].operationId = <<"G","a","m","e","A","B","C","D","e","t","a","i","l","s">>
       /\ lastCall["A"].built[pair[2]].operationId = <<"G","a","m","e","A","B","D","D","e","t","a","i","l","s">>

\* The single record of the list loaded into an instance
OnlyRecord(self) == apiData[self].api.items[1]

HoldsOneRecord(self) ==
  ~apiData[self].isNull /\ apiData[self].api.kind = "array" /\ Len(apiData[self].api.items) = 1

\* A `:token` marker starts at position i: a colon followed by a word character
MarkerAt(url, i) == url[i] = ":" /\ i < Len(url) /\ IsWordChar(url[i + 1])

\* Position i holds the last character of the token of some marker
TokenEndsAt(url, i) ==
  /\ IsWordChar(url[i])
  /\ i = Len(url) \/ ~IsWordChar(url[i + 1])
  /\ \E m \in 1..(i - 1) : MarkerAt(url, m) /\ \A k \in (m + 1)..i : IsWordChar(url[k])

\* The URL with `{` in place of the colon of every marker and `}` after the
\* last character of its token, every other character kept
Braced(url) ==
  join([i \in 1..Len(url) |->
          IF MarkerAt(url, i) THEN <<"{">>
          ELSE IF TokenEndsAt(url, i) THEN <<url[i], "}">>
          ELSE <<url[i]>>])

\* C11: the key under which a record with a URL is put into the paths map is
\* its URL with every `:token` replaced by `{token}`, the token spelled as it
\* was and every other character unchanged; a URL without markers is the key
\* as it is
C11_PathKeyIsUrlWithBracedTokens ==
  (Converted("A") /\ HoldsOneRecord("A") /\ truthy(OnlyRecord("A").url)) =>
    LET url == OnlyRecord("A").url
    IN  /\ DOMAIN lastCall["A"].doc.paths = {Braced(url)}
        /\ (\A i \in 1..Len(url) : ~MarkerAt(url, i)) =>
             DOMAIN lastCall["A"].doc.paths = {url}

C11_Witness ==
  /\ Converted("A") /\ HoldsOneRecord("A")
  /\ OnlyRecord("A").url = <<"/","s","e","r","v","i","c","e","s","/",":","s","e","r","v","i","c","e","_","i","d","/","g","a","m","e","s","e","r","v","e","r","s","/",":","i","d">>
  /\ DOMAIN lastCall["A"].doc.paths = {<<"/","s","e","r","v","i","c","e","s","/","{","s","e","r","v","i","c","e","_","i","d","}","/","g","a","m","e","s","e","r","v","e","r","s","/","{","i","d","}">>}

\* The key of the only path of a document
OnlyPath(doc) == CHOOSE path \in DOMAIN doc.paths : TRUE

\* The operation built for the single record of the list
OnlyOperation(self) == lastCall[self].built[1]

\* An instance converted a one-record list whose record has a URL
ConvertedOne(self) ==
  /\ Converted(self) /\ HoldsOneRecord(self)
  /\ truthy(OnlyRecord(self).url)
  /\ Len(lastCall[self].built) = 1

\* The positions at which a brace token `{word}` starts in a path
BraceTokenStarts(path) ==
  {i \in 1..Len(path) :
     /\ path[i] = "{"
     /\ \E j \in (i + 2)..Len(path) :
          path[j] = "}" /\ \A k \in (i + 1)..(j - 1) : IsWordChar(path[k])}

\* The name between the braces of the token that starts at position i
BraceTokenAt(path, i) ==
  LET j == CHOOSE j \in (i + 2)..Len(path) :
             path[j] = "}" /\ \A k \in (i + 1)..(j - 1) : IsWordChar(path[k])
  IN  SubSeq(path, i + 1, j - 1)

\* The brace tokens of a path from left to right
BraceTokens(path) ==
  LET starts == BraceTokenStarts(path)
      order == CHOOSE f \in [1..Cardinality(starts) -> starts] :
                 \A a, b \in 1..Cardinality(starts) : a < b => f[a] < f[b]
  IN  [k \in 1..Cardinality(starts) |-> BraceTokenAt(path, order[k])]

\* The field list a group declares: the one under the first of the labels
\* that holds a list, empty when none does
DeclaredList(group, label1, label2) ==
  IF group.kind = "undefined" \/ group.fields.kind = "undefined" THEN <<>>
  ELSE IF group.fields.labels[label1].kind = "array" THEN group.fields.labels[label1].items
  ELSE IF group.fields.labels[label2].kind = "array" THEN group.fields.labels[label2].items
  ELSE <<>>

\* C12: the parameters of an operation are its path parameters (one per brace
\* token, left to right, required, string schema), then its query parameters,
\* then its header parameters, the latter two in the order of the declared
\* field list with required = not optional; no path parameter follows a query
\* or header parameter
C12_ParametersArePathThenQueryThenHeader ==
  ConvertedOne("A") =>
    LET p == OnlyOperation("A").parameters
        tokens == BraceTokens(OnlyPath(lastCall["A"].doc))
        query == DeclaredList(OnlyRecord("A").parameter, "Parameter", "Query")
        header == DeclaredList(OnlyRecord("A").header, "Header", "Header")
        nP == Len(tokens)
        nQ == Len(query)
    IN  /\ Len(p) = nP + nQ + Len(header)
        /\ \A k \in 1..nP :
             /\ p[k].name = tokens[k] /\ p[k].in = "path"
             /\ p[k].required /\ p[k].schema = Schema("string", "")
        /\ \A k \in 1..nQ :
             /\ p[nP + k].name = query[k].field /\ p[nP + k].in = "query"
             /\ p[nP + k].required = ~query[k].optional
        /\ \A k \in 1..Len(header) :
             /\ p[nP + nQ + k].name = header[k].field /\ p[nP + nQ + k].in = "header"
             /\ p[nP + nQ + k].required = ~header[k].optional
        /\ \A i, j \in 1..Len(p) : i < j => ~(p[i].in # "path" /\ p[j].in = "path")

C12_Witness ==
  /\ ConvertedOne("A")
  /\ OnlyRecord("A").url = <<"/","s","/",":","a","_","b","/","t","/",":","c">>
  /\ LET p == OnlyOperation("A").parameters
     IN  /\ Len(p) = 6
         /\ <<p[1].name, p[2].name>> = <<<<"a","_","b">>, <<"c">>>>
         /\ <<p[3].name, p[4].name>> = <<<<"n","a","m","e">>, <<"l","i","m","i","t">>>>
         /\ <<p[3].required, p[4].required>> = <<TRUE, FALSE>>
         /\ <<p[5].in, p[6].in>> = <<"header", "header">>

\* The keys of the type table in their declaration order, as the contract
\* lists them
DeclaredTypeKeys ==
  << <<"s","t","r","i","n","g">>, <<"n","u","m","b","e","r">>, <<"i","n","t","e","g","e","r">>, <<"i","n","t">>,
     <<"b","o","o","l","e","a","n">>, <<"b","o","o","l">>, <<"a","r","r","a","y">>, <<"o","b","j","e","c","t">> >>

\* The schema the contract gives for a key
SchemaForKey(key) ==
  CASE key = <<"s","t","r","i","n","g">> -> [type |-> "string", items |-> ""]
    [] key \in {<<"n","u","m","b","e","r">>, <<"i","n","t","e","g","e","r">>, <<"i","n","t">>} -> [type |-> "integer", items |-> ""]
    [] key \in {<<"b","o","o","l","e","a","n">>, <<"b","o","o","l">>} -> [type |-> "boolean", items |-> ""]
    [] key = <<"a","r","r","a","y">> -> [type |-> "array", items |-> "string"]
    [] key = <<"o","b","j","e","c","t">> -> [type |-> "object", items |-> ""]

\* The key occurs somewhere in the token, letter case ignored
OccursIn(key, token) ==
  \E i \in 1..(Len(token) - Len(key) + 1) :
    \A k \in 1..Len(key) : CharToLower(token[i + k - 1]) = key[k]

Parsed(self) == lastCall[self].op = "parseParameterType"

\* C13: parseParameterType gives the schema of the first key, in declaration
\* order, that occurs in the token (letter case ignored), wherever in the token
\* it occurs; a token without any key, an empty token and a missing or null
\* token give the string schema
C13_FirstDeclaredKeyInTokenDecides ==
  Parsed("A") =>
    LET token == lastCall["A"].token
        hits == IF token = undefined THEN {}
                ELSE {i \in DOMAIN DeclaredTypeKeys : OccursIn(DeclaredTypeKeys[i], token)}
    IN  IF hits = {}
          THEN lastCall["A"].schema = [type |-> "string", items |-> ""]
          ELSE \E i \in hits :
                 /\ \A j \in hits : i <= j
                 /\ lastCall["A"].schema = SchemaForKey(DeclaredTypeKeys[i])

C13_Witness ==
  /\ Parsed("A")
  /\ lastCall["A"].token = <<"o","b","j","e","c","t","a","r","r","a","y">>
  /\ lastCall["A"].schema = [type |-> "array", items |-> "string"]

\* The status codes of an operation's responses
ResponseCodes(operation) ==
  {operation.responses[i].code : i \in DOMAIN operation.responses}

\* The group lists at least one field under the label
DeclaresFieldUnder(group, label) ==
  /\ group.kind # "undefined" /\ group.fields.kind # "undefined"
  /\ group.fields.labels[label].kind = "array"
  /\ Len(group.fields.labels[label].items) > 0

\* C14: the responses of every operation contain 200, 401, 403, 404 and 500,
\* and they contain 400 if and only if the record declares at least one error
\* field under 'Error 4xx' or under 'Error'
C14_DefaultResponsesAnd400IffErrorField ==
  ConvertedOne("A") =>
    LET codes == ResponseCodes(OnlyOperation("A"))
    IN  /\ {"200", "401", "403", "404", "500"} \subseteq codes
        /\ "400" \in codes <=>
             \/ DeclaresFieldUnder(OnlyRecord("A").error, "Error 4xx")
             \/ DeclaresFieldUnder(OnlyRecord("A").error, "Error")

\* The method of a record, lower-cased, 'get' when the record has none
MethodOf(endpoint) ==
  IF endpoint.type = undefined THEN <<"g","e","t">>
  ELSE [i \in 1..Len(endpoint.type) |-> CharToLower(endpoint.type[i])]

\* The body fields a record declares under 'Body' and under 'Request'
BodyFieldsUnder(endpoint, label) ==
  IF DeclaresFieldUnder(endpoint.parameter, label)
    THEN endpoint.parameter.fields.labels[label].items
    ELSE <<>>

\* C15: an operation has a requestBody if and only if its method is POST, PUT
\* or PATCH (letter case ignored) and the record declares at least one body
\* field under 'Body' or 'Request'; its `required` is true if and only if one
\* of the body fields is not optional
C15_RequestBodyIffBodyMethodAndBodyField ==
  ConvertedOne("A") =>
    LET body == OnlyOperation("A").requestBody
        fields == BodyFieldsUnder(OnlyRecord("A"), "Body")
                    \o BodyFieldsUnder(OnlyRecord("A"), "Request")
    IN  /\ body.present <=>
             /\ MethodOf(OnlyRecord("A")) \in {<<"p","o","s","t">>, <<"p","u","t">>, <<"p","a","t","c","h">>}
             /\ fields # <<>>
        /\ body.present =>
             (body.required <=> \E k \in DOMAIN fields : ~fields[k].optional)

\* C16: every operation of the output document carries the security
\* requirement [{BearerAuth: []}], unless its record is marked public: then
\* it has no security entry
C16_SecurityUnlessPublic ==
  ConvertedOne("A") =>
    \A key \in OperationKeys(lastCall["A"].doc) :
      LET security == lastCall["A"].doc.paths[key[1]][key[2]].security
      IN  IF OnlyRecord("A").public
            THEN ~security.present
            ELSE security.present /\ security.value = <<[BearerAuth |-> <<>>]>>

C16_Witness ==
  /\ ConvertedOne("A")
  /\ OnlyRecord("A").public
  /\ OperationKeys(lastCall["A"].doc) # {}
  /\ ~OnlyOperation("A").security.present

\* No label of the group holds a list of fields: the group is missing, has no
\* `fields` object, has an empty one, or holds something else under its labels
MissingOrMisshapen(group, label1, label2) ==
  \/ group.kind = "undefined"
  \/ group.fields.kind = "undefined"
  \/ /\ group.fields.labels[label1].kind # "array"
     /\ group.fields.labels[label2].kind # "array"

\* C17: a record with a missing or misshapen parameter, header, success or
\* error group is converted without an error, and such a group adds nothing:
\* no query parameters, no header parameters, the default 200 response, no 400
C17_MisshapenGroupContributesNothing ==
  ( /\ lastCall["A"].op = "convertToOpenAPI" /\ HoldsOneRecord("A")
    /\ truthy(OnlyRecord("A").url) ) =>
    LET endpoint == OnlyRecord("A")
        operation == OnlyOperation("A")
        noQuery == MissingOrMisshapen(endpoint.parameter, "Parameter", "Query")
        noHeader == MissingOrMisshapen(endpoint.header, "Header", "Header")
        noSuccess == MissingOrMisshapen(endpoint.success, "Success 200", "Success")
        noError == MissingOrMisshapen(endpoint.error, "Error 4xx", "Error")
    IN  (noQuery \/ noHeader \/ noSuccess \/ noError) =>
          /\ lastCall["A"].error = ""
          /\ Len(lastCall["A"].built) = 1
          /\ noQuery => \A k \in DOMAIN operation.parameters : operation.parameters[k].in # "query"
          /\ noHeader => \A k \in DOMAIN operation.parameters : operation.parameters[k].in # "header"
          /\ noSuccess => \A k \in DOMAIN operation.responses :
                            operation.responses[k].code = "200" =>
                              ~operation.responses[k].content.schema.hasProperties
          /\ noError => "400" \notin ResponseCodes(operation)

\* The operation identifiers of a document are pairwise distinct
UniqueOperationIds(doc) ==
  \A key1, key2 \in OperationKeys(doc) :
    key1 # key2 => OperationIdAt(doc, key1) # OperationIdAt(doc, key2)

\* A call of convertToOpenAPI or ensureUniqueOperationId on an instance
ConvertsOrReserves(self) ==
  \/ ConvertToOpenAPI(self)
  \/ \E baseId \in DirectBaseIds : EnsureUniqueOperationId(self, baseId)

\* C18: a convertToOpenAPI or ensureUniqueOperationId call on one instance
\* leaves the ledger of every other instance and the document that instance
\* last returned as they were, whatever the interleaving of the calls, and
\* the document of each instance has pairwise distinct operation identifiers
C18_InstancesShareNoLedgerAndNoDocument ==
  /\ [](\A self \in Instances : Converted(self) => UniqueOperationIds(lastCall[self].doc))
  /\ [][\A self \in Instances :
          ConvertsOrReserves(self) =>
            \A other \in Instances \ {self} :
              /\ usedOperationIds'[other] = usedOperationIds[other]
              /\ lastCall'[other].doc = lastCall[other].doc]_vars

C18_Witness ==
  /\ Converted("A") /\ Converted("B")
  /\ Cardinality(usedOperationIds["A"]) = 2
  /\ Cardinality(usedOperationIds["B"]) = 1
  /\ lastCall["A"].doc # lastCall["B"].doc

\* The script that runs is `node converter.js`: run() has started
RunStarted == calls # <<>> /\ calls[1].op = "axios.get"

\* The steps of run() in their order: fetch, save the raw data, convert, save
\* the OpenAPI document, and the conversion of the summary
RunSteps ==
  << [op |-> "axios.get", arg |-> "apiDataUrl"],
     [op |-> "fs.mkdir", arg |-> "outputDir"],
     [op |-> "fs.writeFile", arg |-> "nitrado-api.json"],
     [op |-> "convertToOpenAPI", arg |-> ""],
     [op |-> "fs.mkdir", arg |-> "outputDir"],
     [op |-> "fs.writeFile", arg |-> "nitrado-openapi.json"],
     [op |-> "convertToOpenAPI", arg |-> "logSummary"] >>

IsStep(event) == event.op \notin {"error", "process.exit"}

FilesWritten == SelectSeq(calls, LAMBDA event : event.op = "fs.writeFile")

\* C19: run() takes its steps in the order fetch, save nitrado-api.json,
\* convert, save nitrado-openapi.json; a failed step is followed by the request
\* of exit code 1 and by nothing else, so that no later step is taken; a run
\* without failure writes exactly the two files
C19_RunStepsInOrderAndStopAtFailure ==
  RunStarted =>
    LET steps == SelectSeq(calls, IsStep)
    IN  /\ Len(steps) <= Len(RunSteps)
        /\ steps = SubSeq(RunSteps, 1, Len(steps))
        /\ \A i \in DOMAIN calls :
             calls[i].op = "error" =>
               /\ Len(calls) = i + 1
               /\ calls[i + 1] = [op |-> "process.exit", arg |-> "1"]
               /\ pc["A"] = "exited"
        /\ pc["A"] = "exited" => \E i \in DOMAIN calls : calls[i].op = "error"
        /\ pc["A"] = "done" =>
             /\ \A i \in DOMAIN calls : IsStep(calls[i])
             /\ FilesWritten = << [op |-> "fs.writeFile", arg |-> "nitrado-api.json"],
                                  [op |-> "fs.writeFile", arg |-> "nitrado-openapi.json"] >>

C19_Witness ==
  /\ pc["A"] = "exited"
  /\ calls = << [op |-> "axios.get", arg |-> "apiDataUrl"],
                [op |-> "fs.mkdir", arg |-> "outputDir"],
                [op |-> "fs.writeFile", arg |-> "nitrado-api.json"],
                [op |-> "error", arg |-> "saveAsJSON"],
                [op |-> "process.exit", arg |-> "1"] >>

\* C20: in dry-run mode (--dry-run, or NITRADO_DRY_RUN=true) neither run() nor
\* the convert-only script calls fs.mkdir or fs.writeFile
C20_DryRunWritesNoFiles ==
  (config.options.dryRun \/ config.env.NITRADO_DRY_RUN = "true") =>
    \A i \in DOMAIN calls : calls[i].op \notin {"fs.mkdir", "fs.writeFile"}

\* A setting taken from the command line when its option holds a non-empty
\* argument, else from the environment when its variable is non-empty, else
\* from the default
Resolved(argument, variable, default) ==
  IF argument # undefined /\ argument # <<>> THEN argument
  ELSE IF variable # undefined /\ variable # <<>> THEN variable
  ELSE default

\* A flag: true when given on the command line, else what the variable says
\* when it is set, else false
ResolvedFlag(given, variable) ==
  IF given THEN TRUE ELSE IF variable # "" THEN variable = "true" ELSE FALSE

\* C21: getConfig resolves every setting as the command-line option when
\* set, else the NITRADO_* variable when set, else the built-in default; the
\* API URL has no default, and when neither source gives a non-empty API URL
\* getConfig reports the error and requests exit code 1 (and does neither
\* when one of them gives it)
C21_OptionThenVariableThenDefault ==
  [][ pc["A"] = "start" =>
        LET argv == config.argv
            env == config.env
            url == Resolved(argv.apiUrl, env.NITRADO_API_URL, undefined)
        IN  /\ \A setting \in DOMAIN optionOf \ {"apiDataUrl"} :
                 config'[setting] = Resolved(argv[optionOf[setting]],
                                             env[variableOf[setting]],
                                             builtIn[setting])
            /\ config'.verbose = ResolvedFlag(argv.verbose, env.NITRADO_VERBOSE)
            /\ config'.dryRun = ResolvedFlag(argv.dryRun, env.NITRADO_DRY_RUN)
            /\ IF url # undefined
                 THEN /\ config'.apiDataUrl = url
                      /\ pc'["A"] = "idle"
                      /\ calls' = calls
                 ELSE /\ config'.apiDataUrl \in {undefined, <<>>}
                      /\ pc'["A"] = "exited"
                      /\ calls' = calls \o << [op |-> "error", arg |-> "API URL is required"],
                                              [op |-> "process.exit", arg |-> "1"] >>
    ]_vars

\* getConfig returned for a command line that gives the output directory while
\* the environment gives another and the API URL
C21_Witness ==
  /\ pc["A"] = "idle"
  /\ "outputDir" \in DOMAIN config
  /\ config.env.NITRADO_OUTPUT_DIR = <<"e","n","v">>
  /\ config.env.NITRADO_API_URL = <<"e","n","v">>
  /\ config.options.apiUrl = <<>>
  /\ config.outputDir = <<"c","l","i">>
  /\ config.apiDataUrl = <<"e","n","v">>

\* The slot of the document a record with a URL is converted into
SlotOf(endpoint) == <<Braced(endpoint.url), MethodOf(endpoint)>>

\* The last record of the list that is converted into a slot
LastRecordOf(items, slot) ==
  CHOOSE k \in RecordsWithUrl(items) :
    /\ SlotOf(items[k]) = slot
    /\ \A j \in RecordsWithUrl(items) : SlotOf(items[j]) = slot => j <= k

\* C22: a conversion of an endpoint list raises no error when several records
\* map to the same (normalized path, lower-case method) pair; the document has
\* one operation per pair that a record with a URL maps to, and it is the
\* operation built from the last such record of the list
C22_LastRecordOfASlotWins ==
  \A self \in Instances :
    (lastCall[self].op = "convertToOpenAPI" /\ ~apiData[self].isNull
       /\ apiData[self].api.kind = "array") =>
      LET call == lastCall[self]
          items == apiData[self].api.items
      IN  /\ call.error = ""
          /\ OperationKeys(call.doc) = {SlotOf(items[k]) : k \in RecordsWithUrl(items)}
          /\ \A slot \in OperationKeys(call.doc) :
               call.doc.paths[slot[1]][slot[2]] = call.built[LastRecordOf(items, slot)]

\* Three records, the first and the third for the same slot with different
\* operations: the document holds the third
C22_Witness ==
  /\ Converted("A")
  /\ Len(apiData["A"].api.items) = 3
  /\ LET items == apiData["A"].api.items
         call == lastCall["A"]
     IN  /\ truthy(items[1].url) /\ truthy(items[3].url)
         /\ SlotOf(items[1]) = SlotOf(items[3])
         /\ SlotOf(items[2]) # SlotOf(items[1])
         /\ call.built[1] # call.built[3]
         /\ call.doc.paths[SlotOf(items[3])[1]][SlotOf(items[3])[2]] = call.built[3]

\* A record that gets a contextual identifier with a group in front: its name
\* is not blank and generic, its group is there and is not 'Default'
HasGroupPrefix(endpoint) ==
  /\ ~NameIsBlank(endpoint)
  /\ IsGenericName(CleanNameOf(endpoint))
  /\ endpoint.group # undefined /\ endpoint.group # <<>> /\ endpoint.group # DefaultGroup

\* The part of a contextual identifier behind the group prefix
BehindGroupPrefix(endpoint) ==
  PascalCasedSegments(UrlOf(endpoint), 1) \o CleanNameOf(endpoint)

\* C23 as stated: the group prefix of a contextual identifier is what the
\* PascalCasing rule gives for a path literal spelled like the group.
C23_GroupPrefixIsPascalCasedGroup ==
  \A self \in Instances :
    (Generated(self) /\ HasGroupPrefix(lastCall[self].endpoint)) =>
      lastCall[self].id =
        FirstLetterUp(PascalCased(lastCall[self].endpoint.group)
                        \o BehindGroupPrefix(lastCall[self].endpoint))

\* C23, amended: the group prefix is the group with every character that is
\* not a letter or a digit removed and no letter changed (`_x` loses its
\* underscore and keeps its lower-case x); it is what the PascalCasing rule
\* gives for a path literal exactly when the rule and the removal agree on the
\* group, as they do on every group made of letters and digits only.
C23_GroupPrefixIsGroupWithoutNonAlphanumerics ==
  \A self \in Instances :
    (Generated(self) /\ HasGroupPrefix(lastCall[self].endpoint)) =>
      LET endpoint == lastCall[self].endpoint
          group == endpoint.group
          kept == SelectSeq(group, LAMBDA c : c \in LowerCaseSet \cup UpperCaseSet \cup DigitSet)
      IN  /\ lastCall[self].id = FirstLetterUp(kept \o BehindGroupPrefix(endpoint))
          /\ (kept = group) =>
               lastCall[self].id = FirstLetterUp(PascalCased(group) \o BehindGroupPrefix(endpoint))
          /\ (lastCall[self].id = FirstLetterUp(PascalCased(group) \o BehindGroupPrefix(endpoint)))
               <=> (FirstLetterUp(kept) = PascalCased(group))

\* Details in group g_m at /a/b gives GmABDetails, where a path literal g_m
\* gives GM
C23_Witness ==
  /\ Generated("A")
  /\ lastCall["A"].endpoint.name = Details
  /\ lastCall["A"].endpoint.group = <<"g", "_", "m">>
  /\ lastCall["A"].endpoint.url = <<"/", "a", "/", "b">>
  /\ PascalCased(lastCall["A"].endpoint.group) = <<"G", "M">>
  /\ lastCall["A"].id = <<"G","m","A","B","D","e","t","a","i","l","s">>

\* C24: every convertToOpenAPI() starts by clearing the ledger, so that after
\* the call, a call that failed with the no-data error included, the ledger
\* holds none of the identifiers registered before the call: after a failed
\* call it is empty, after a call that returned it holds the identifiers of
\* the operations built by that call only.
C24_EveryConversionClearsLedger ==
  \A self \in Instances :
    lastCall[self].op = "convertToOpenAPI" =>
      IF lastCall[self].error # ""
        THEN usedOperationIds[self] = {}
        ELSE usedOperationIds[self] =
               {lastCall[self].built[k].operationId :
                  k \in {j \in DOMAIN lastCall[self].built : lastCall[self].built[j] # NoOperation}}

\* What convertToOpenAPI() returns on a new instance that holds the data of
\* this one
FirstConversion(self) == convertToOpenAPI(apiData[self], {})

\* What convertToOpenAPI() returns when it is called on this instance now
NextConversion(self) == convertToOpenAPI(apiData[self], usedOperationIds[self])

\* C25: as long as the loaded data stays the same, every convertToOpenAPI() on
\* an instance returns the document the first call returned (or fails as the
\* first call failed), whatever conversions and direct calls of
\* ensureUniqueOperationId were made before: the document of the call made
\* last and the document of a call made now both equal the document of a
\* conversion on an empty ledger.
C25_RepeatedConversionsReturnEqualDocuments ==
  \A self \in Instances :
    \E first \in {FirstConversion(self)}, next \in {NextConversion(self)} :
      /\ next.doc = first.doc
      /\ next.error = first.error
      /\ lastCall[self].op = "convertToOpenAPI" =>
           /\ lastCall[self].doc = first.doc
           /\ lastCall[self].error = first.error

\* Between two conversions: the ledger holds the identifiers of a conversion
\* (BCZork is built from a record only), and ensureUniqueOperationId was then
\* called with an identifier of the document and returned it with a suffix
C25_Witness ==
  /\ lastCall["A"].op = "ensureUniqueOperationId"
  /\ lastCall["A"].baseId = <<"G","a","m","e","A","B","C","D","e","t","a","i","l","s">>
  /\ lastCall["A"].id = <<"G","a","m","e","A","B","C","D","e","t","a","i","l","s","2">>
  /\ <<"B","C","Z","o","r","k">> \in usedOperationIds["A"]
  /\ NextConversion("A").error = ""
  /\ \E key \in OperationKeys(NextConversion("A").doc) :
       OperationIdAt(NextConversion("A").doc, key) = lastCall["A"].baseId

\* A step is a convertToOpenAPI() call on an instance that changes anything
ConvertsNow(self) ==
  /\ lastCall'[self].op = "convertToOpenAPI"
  /\ <<lastCall[self], usedOperationIds[self]>> # <<lastCall'[self], usedOperationIds'[self]>>

C27_ProbeEndsWithinLedgerSizePlusOne ==
  /\ [](pc["A"] = "while" => Len(calls) <= Cardinality(usedOperationIds["A"]))
  /\ []((pc["A"] = "idle" /\ lastCall["A"].op = "ensureUniqueOperationId") =>
          /\ Len(calls) <= (Cardinality(usedOperationIds["A"]) - 1) + 1
          /\ lastCall["A"].error = ""
          /\ lastCall["A"].id # <<>>
          /\ lastCall["A"].id \in usedOperationIds["A"])
  /\ (pc["A"] = "while") ~> (pc["A"] = "idle" /\ lastCall["A"].op = "ensureUniqueOperationId")

\* A call on a ledger of two identifiers that needed all three tests: X and X2
\* were taken, X3 was returned
C27_Witness ==
  /\ pc["A"] = "idle"
  /\ lastCall["A"].op = "ensureUniqueOperationId"
  /\ lastCall["A"].baseId = <<"X">>
  /\ lastCall["A"].id = <<"X","3">>
  /\ Len(calls) = 3
  /\ usedOperationIds["A"] = {<<"X">>, <<"X","2">>, <<"X","3">>}

\* The normalized paths of the records that have a URL, each once, in the
\* order in which the list first has them
RECURSIVE FirstOccurrences(_, _)
FirstOccurrences(items, seen) ==
  IF items = <<>> THEN <<>>
  ELSE IF ~truthy(Head(items).url) \/ Braced(Head(items).url) \in seen
    THEN FirstOccurrences(Tail(items), seen)
  ELSE <<Braced(Head(items).url)>>
         \o FirstOccurrences(Tail(items), seen \cup {Braced(Head(items).url)})

\* The tags, the path keys and their order that the claim gives a list
TagsAndPathOrder(self) ==
  LET call == lastCall[self]
      items == apiData[self].api.items
  IN  /\ call.error = ""
      /\ \A k \in RecordsWithUrl(items) :
           call.built[k].tags =
             <<IF items[k].group = undefined \/ items[k].group = <<>>
                 THEN <<"D","e","f","a","u","l","t">>
                 ELSE items[k].group>>
      /\ call.doc.pathKeys = FirstOccurrences(items, {})

\* C28: the conversion of an endpoint list gives each operation the tags
\* [group], ['Default'] for a record without group, and the groups have no
\* other effect: whatever the groups of the records are, the conversion
\* returns, and the path keys of the document are the normalized paths in the
\* order of their first occurrence in the list.
C28_GroupsGiveTagsAndNothingElse ==
  \A self \in Instances :
    (lastCall[self].op = "convertToOpenAPI" /\ ~apiData[self].isNull
       /\ apiData[self].api.kind = "array") => TagsAndPathOrder(self)

\* The call last made on an instance was a fetchAPIData() that rejected
FetchFailed(self) ==
  lastCall[self].op = "fetchAPIData" /\ lastCall[self].error # ""

\* C29: a fetchAPIData() that fails (HTTP or network error, payload that does
\* not parse) rejects and leaves apiData as it was: an instance that held data
\* holds the same data, an instance without data has none, and a
\* convertToOpenAPI() that follows on it fails with the no-data error.
C29_FailedFetchLeavesApiData ==
  [][ \A self \in Instances :
        /\ (lastCall'[self].op = "fetchAPIData" /\ lastCall'[self].error # ""
              /\ lastCall'[self] # lastCall[self]) =>
             apiData'[self] = apiData[self]
        /\ (FetchFailed(self) /\ apiData[self].isNull
              /\ lastCall'[self].op = "convertToOpenAPI") =>
             /\ lastCall'[self].error = NoDataError
             /\ apiData'[self].isNull
    ]_vars

\* A fetch failed on an instance that held a list of two records, and the
\* instance holds it still
C29_Witness ==
  /\ FetchFailed("A")
  /\ lastCall["A"].error = "Failed to parse API data: Unexpected token"
  /\ ~apiData["A"].isNull
  /\ apiData["A"].api.kind = "array"
  /\ Len(apiData["A"].api.items) = 2

\* C30: every operation of a returned document has an operationId that is
\* not the empty string, whatever the name, the group and the URL of the
\* record it was built from.
C30_OperationIdIsNotEmpty ==
  \A self \in Instances :
    Converted(self) =>
      \A key \in OperationKeys(lastCall[self].doc) :
        /\ OperationIdAt(lastCall[self].doc, key) # undefined
        /\ OperationIdAt(lastCall[self].doc, key) # <<>>

=============================================================================
